---- MODULE Spec2Model ----
(***************************************************************************)
(* Marble NFT marketplace contract: listings, auctions, offers, trades and *)
(* the asynchronous settlement callbacks, as a state machine.              *)
(*                                                                         *)
(* One transaction of the contract (a public method or a callback) is one  *)
(* action.  A handler that panics changes nothing, so a panic of a user    *)
(* call is a disabled action; a panic of a callback consumes the promise   *)
(* and changes nothing else.  Handlers are written as functions from the   *)
(* contract state (a record) to the contract state, so that a handler that *)
(* calls internal_* helpers is their composition.                          *)
(*                                                                         *)
(* Amounts are yoctoNEAR / FT units with small values; the three program   *)
(* constants too large for the checker's integers (MAX_PRICE,              *)
(* STORAGE_ADD_MARKET_DATA, FIVE_MINUTES, and the 10^9 of to_sec) are      *)
(* scaled down, keeping every comparison of the source.                    *)
(***************************************************************************)
EXTENDS Integers, Sequences, FiniteSets, TLC

\* ------------------------------------------------------------ constants
\* Option<T>: None is the empty sequence, Some(v) the one-element sequence.
None == <<>>
Some(v) == <<v>>
Val(o) == o[1]                  \* Option::unwrap
NEAR == "near"                  \* lib.rs:67, the native-coin sentinel
FT == "ft"                      \* a registered fungible token contract
MARKET == "market"              \* env::current_account_id()
NFT == "nft"                    \* the approved NFT contract

MAX_PRICE == 4000               \* lib.rs:27 (scaled)
STORAGE_ADD_MARKET_DATA == 10   \* lib.rs:29 (scaled)
FIVE_MINUTES == 1               \* lib.rs:30 (scaled)
NANOS_PER_SEC == 2              \* lib.rs:2889 (10^9), scaled
FEE_DENOMINATOR == 10000        \* lib.rs:698
PAYOUT_TOLERANCE == 100         \* lib.rs:633
MAX_BIDS == 3                   \* lib.rs:1973 (100), scaled
U128_MODULUS == 1048576         \* lib.rs:786, u128 (scaled)

\* ------------------------------------------------------------ bounds
MaxTime == 2                    \* block timestamps 0..MaxTime
MaxApprovals == 2               \* approvals the NFT contract issues per token
MaxPromises == 2                \* settlements / swaps in flight at once
MaxDeposits == 1                \* storage deposits per account, in STORAGE units
MaxExcess == 1                  \* deposit attached above the amount asked

Users == {"alice", "bob", "carol"}
Accounts == Users \cup {"owner", "treasury"}
Tokens == {"1:1", "2:1"}
SeriesIds == {"1", "2"}
FtTokenIds == {NEAR, FT}
\* TokenId.split(":").next(): the series of a token (lib.rs:1177)
token_series_id(t) == IF t = "1:1" THEN "1" ELSE "2"

\* ------------------------------------------------------------ identifier codec
DELIMETER == "||"                \* lib.rs:66
\* format!("{}{}{}", nft, DELIMETER, token)
contract_and_token_id(nft, tok) == nft \o DELIMETER \o tok
make_triple(nft, acct, tok) == nft \o DELIMETER \o acct \o DELIMETER \o tok
make_key_owner_by_id_trade(k3) == k3 \o DELIMETER \o "trade"
to_sec(ts) == ts \div NANOS_PER_SEC

Keys2 == {contract_and_token_id(NFT, t) : t \in Tokens}
Keys3 == {make_triple(NFT, a, t) : a \in Accounts, t \in Tokens \cup SeriesIds}

VARIABLES
    owner_id,                    \* Contract.owner_id
    treasury_id,                 \* Contract.treasury_id
    transaction_fee,             \* Contract.transaction_fee
    old_market,                  \* Contract.old_market (legacy listings)
    market,                      \* Contract.market
    approved_ft_token_ids,
    approved_nft_contract_ids,
    marble_nft_contracts,
    storage_deposits,            \* account -> balance (0 when absent)
    by_owner_id,                 \* account -> Option<set of keys>
    offers,                      \* key3 -> Option<OfferData>
    trades,                      \* key3 -> Option<TradeList>
    market_data_transaction_fee, \* key2 -> Option<fee snapshot>
    now,                         \* env::block_timestamp()
    promises,                    \* receipts in flight, oldest first
    nftOwner,                    \* NFT contract: token -> owner
    nftApproval,                 \* NFT contract: token -> Option<approval id held by MARKET>
    nftNextApproval,             \* NFT contract: token -> next approval id
    held,                        \* funds received for bids and offers minus refunds, per payment token
    issued,                      \* listing instances an nft_transfer_payout was issued for
    last                         \* the transaction just executed: what it was and what it sent

cvars == <<owner_id, treasury_id, transaction_fee, old_market, market,
           approved_ft_token_ids, approved_nft_contract_ids, marble_nft_contracts,
           storage_deposits, by_owner_id, offers, trades, market_data_transaction_fee>>
nftvars == <<nftOwner, nftApproval, nftNextApproval>>
vars == <<cvars, now, promises, nftvars, held, issued, last>>

\* ------------------------------------------------------------ contract state as a value
\* The persisted contract plus the effects a transaction accumulates:
\* out = transfers sent (Promise::transfer / ft_transfer), in order;
\* calls = cross-contract calls with callbacks that the transaction created, in order.
State == [ owner_id |-> owner_id, treasury_id |-> treasury_id,
           transaction_fee |-> transaction_fee,
           old_market |-> old_market, market |-> market,
           approved_ft_token_ids |-> approved_ft_token_ids,
           approved_nft_contract_ids |-> approved_nft_contract_ids,
           marble_nft_contracts |-> marble_nft_contracts,
           storage_deposits |-> storage_deposits, by_owner_id |-> by_owner_id,
           offers |-> offers, trades |-> trades,
           market_data_transaction_fee |-> market_data_transaction_fee,
           out |-> <<>>, calls |-> <<>> ]

Transfer(to, amount, token) == [to |-> to, amount |-> amount, token |-> token]

RECURSIVE SumAmounts(_)
SumAmounts(seq) == IF seq = <<>> THEN 0 ELSE Head(seq).amount + SumAmounts(Tail(seq))

\* Commit the contract part of a state value.
Commit(s) ==
    /\ owner_id' = s.owner_id
    /\ treasury_id' = s.treasury_id
    /\ transaction_fee' = s.transaction_fee
    /\ old_market' = s.old_market
    /\ market' = s.market
    /\ approved_ft_token_ids' = s.approved_ft_token_ids
    /\ approved_nft_contract_ids' = s.approved_nft_contract_ids
    /\ marble_nft_contracts' = s.marble_nft_contracts
    /\ storage_deposits' = s.storage_deposits
    /\ by_owner_id' = s.by_owner_id
    /\ offers' = s.offers
    /\ trades' = s.trades
    /\ market_data_transaction_fee' = s.market_data_transaction_fee

\* ------------------------------------------------------------ construction
\* Contract::new(owner, treasury, Some([ft]), Some([nft]), Some([nft]), 500)
Init ==
    /\ owner_id = "owner"
    /\ treasury_id = "treasury"
    /\ transaction_fee = [next_fee |-> None, start_time |-> None, current_fee |-> 500]
    /\ old_market = [k \in Keys2 |-> None]
    /\ market = [k \in Keys2 |-> None]
    /\ approved_ft_token_ids = {NEAR, FT}
    /\ approved_nft_contract_ids = {NFT}
    /\ marble_nft_contracts = {NFT}
    /\ storage_deposits = [a \in Accounts |-> 0]
    /\ by_owner_id = [a \in Accounts |-> None]
    /\ offers = [k \in Keys3 |-> None]
    /\ trades = [k \in Keys3 |-> None]
    /\ market_data_transaction_fee = [k \in Keys2 |-> None]
    /\ now = 0
    /\ promises = <<>>
    /\ nftOwner = [t \in Tokens |-> IF t = "1:1" THEN "alice" ELSE "bob"]
    /\ nftApproval = [t \in Tokens |-> None]
    /\ nftNextApproval = [t \in Tokens |-> 1]
    /\ held = [f \in FtTokenIds |-> 0]
    /\ issued = {}
    /\ last = [op |-> "new"]

\* ------------------------------------------------------------ panics
\* A handler that panics yields PANIC instead of a state; the transaction then
\* commits nothing.
PANIC == [panic |-> TRUE]

\* ------------------------------------------------------------ fee schedule
\* A pending fee that becomes the current fee whatever its start time
apply_pending_fee_at_once(s) ==
    IF s.transaction_fee.next_fee # None
    THEN [s EXCEPT !.transaction_fee =
            [next_fee |-> None, start_time |-> None,
             current_fee |-> Val(s.transaction_fee.next_fee)]]
    ELSE s

\* The state after calculate_current_transaction_fee: a pending fee whose start
\* time has come becomes the current fee (lib.rs:340-350).
apply_pending_fee(s) ==
    IF s.transaction_fee.next_fee # None
       /\ to_sec(now) >= Val(s.transaction_fee.start_time)
    THEN [s EXCEPT !.transaction_fee =
            [next_fee |-> None, start_time |-> None,
             current_fee |-> Val(s.transaction_fee.next_fee)]]
    ELSE s

calculate_current_transaction_fee(s) == apply_pending_fee(s).transaction_fee.current_fee

\* The fee of a listing: its snapshot, else the current fee (lib.rs:322-338).
calculate_market_data_transaction_fee_current(s, nft, tok) ==
    calculate_current_transaction_fee(s)

calculate_market_data_transaction_fee(s, nft, tok) ==
    IF s.market_data_transaction_fee[contract_and_token_id(nft, tok)] # None
    THEN Val(s.market_data_transaction_fee[contract_and_token_id(nft, tok)])
    ELSE calculate_current_transaction_fee(s)

\* The state after calculate_market_data_transaction_fee (the fallback applies
\* a pending fee).
after_market_data_transaction_fee(s, nft, tok) ==
    IF s.market_data_transaction_fee[contract_and_token_id(nft, tok)] # None
    THEN s
    ELSE apply_pending_fee(s)

\* near_sdk::assert_one_yocto, the first statement of the payable methods that
\* take no payment (lib.rs:294, 301, 2746)
assert_one_yocto(attached) == attached = 1

\* assert_owner (lib.rs:2865-2871)
assert_owner(s, caller) == caller = s.owner_id

\* set_transaction_fee without assert_owner
set_transaction_fee_by_anyone(s, caller, attached, next_fee, start_time) ==
    IF ~assert_one_yocto(attached) THEN PANIC
    ELSE IF ~(next_fee < 10000) THEN PANIC
    ELSE IF start_time = None
    THEN [s EXCEPT !.transaction_fee =
            [next_fee |-> None, start_time |-> None, current_fee |-> next_fee]]
    ELSE IF ~(Val(start_time) > to_sec(now)) THEN PANIC
    ELSE [s EXCEPT !.transaction_fee.next_fee = Some(next_fee),
                   !.transaction_fee.start_time = start_time]

\* set_transaction_fee (lib.rs:299-320)
set_transaction_fee(s, caller, attached, next_fee, start_time) ==
    IF ~assert_one_yocto(attached) THEN PANIC
    ELSE IF ~assert_owner(s, caller) THEN PANIC
    ELSE IF ~(next_fee < 10000) THEN PANIC
    ELSE IF start_time = None
    THEN [s EXCEPT !.transaction_fee =
            [next_fee |-> None, start_time |-> None, current_fee |-> next_fee]]
    ELSE IF ~(Val(start_time) > to_sec(now)) THEN PANIC
    ELSE [s EXCEPT !.transaction_fee.next_fee = Some(next_fee),
                   !.transaction_fee.start_time = start_time]

\* ------------------------------------------------------------ administration
\* set_treasury (lib.rs:292-297)
set_treasury(s, caller, attached, new_treasury_id) ==
    IF ~assert_one_yocto(attached) THEN PANIC
    ELSE IF ~assert_owner(s, caller) THEN PANIC
    ELSE [s EXCEPT !.treasury_id = new_treasury_id]

\* transfer_ownership without assert_owner
transfer_ownership_by_anyone(s, caller, attached, new_owner_id) ==
    IF ~assert_one_yocto(attached) THEN PANIC
    ELSE [s EXCEPT !.owner_id = new_owner_id]

\* transfer_ownership (lib.rs:375-380)
transfer_ownership(s, caller, attached, new_owner_id) ==
    IF ~assert_one_yocto(attached) THEN PANIC
    ELSE IF ~assert_owner(s, caller) THEN PANIC
    ELSE [s EXCEPT !.owner_id = new_owner_id]

\* add_accounts and remove_accounts (lib.rs:2935-2949) on a set of accounts
add_accounts(accounts, set) == set \cup accounts
remove_accounts(accounts, set) == set \ accounts

\* add_approved_nft_contract_ids (lib.rs:382-387)
add_approved_nft_contract_ids(s, caller, attached, nft_contract_ids) ==
    IF ~assert_one_yocto(attached) THEN PANIC
    ELSE IF ~assert_owner(s, caller) THEN PANIC
    ELSE [s EXCEPT !.approved_nft_contract_ids = add_accounts(nft_contract_ids, @)]

\* remove_approved_nft_contract_ids (lib.rs:389-394)
remove_approved_nft_contract_ids(s, caller, attached, nft_contract_ids) ==
    IF ~assert_one_yocto(attached) THEN PANIC
    ELSE IF ~assert_owner(s, caller) THEN PANIC
    ELSE [s EXCEPT !.approved_nft_contract_ids = remove_accounts(nft_contract_ids, @)]

\* add_approved_marble_nft_contract_ids (lib.rs:396-402)
add_approved_marble_nft_contract_ids(s, caller, attached, nft_contract_ids) ==
    IF ~assert_one_yocto(attached) THEN PANIC
    ELSE IF ~assert_owner(s, caller) THEN PANIC
    ELSE [s EXCEPT !.marble_nft_contracts = add_accounts(nft_contract_ids, @)]

\* add_approved_ft_token_ids (lib.rs:404-409)
add_approved_ft_token_ids(s, caller, attached, ft_token_ids) ==
    IF ~assert_one_yocto(attached) THEN PANIC
    ELSE IF ~assert_owner(s, caller) THEN PANIC
    ELSE [s EXCEPT !.approved_ft_token_ids = add_accounts(ft_token_ids, @)]

\* A call of one of the owner's methods, named by call.method
admin_call(s, caller, attached, call) ==
    IF call.method = "set_treasury" THEN set_treasury(s, caller, attached, call.arg)
    ELSE IF call.method = "transfer_ownership"
    THEN transfer_ownership(s, caller, attached, call.arg)
    ELSE IF call.method = "add_approved_nft_contract_ids"
    THEN add_approved_nft_contract_ids(s, caller, attached, call.arg)
    ELSE IF call.method = "remove_approved_nft_contract_ids"
    THEN remove_approved_nft_contract_ids(s, caller, attached, call.arg)
    ELSE IF call.method = "add_approved_marble_nft_contract_ids"
    THEN add_approved_marble_nft_contract_ids(s, caller, attached, call.arg)
    ELSE add_approved_ft_token_ids(s, caller, attached, call.arg)

\* ------------------------------------------------------------ owner index and storage
get_supply_by_owner_id(s, acct) ==
    IF s.by_owner_id[acct] = None THEN 0 ELSE Cardinality(Val(s.by_owner_id[acct]))

\* by_owner_id.get(acct).unwrap_or_else(new set); insert key; store
by_owner_insert(s, acct, key) ==
    [s EXCEPT !.by_owner_id[acct] = IF @ = None THEN Some({key}) ELSE Some(Val(@) \cup {key})]

\* What by_owner_remove stores for a set that became empty: nothing.
store_index_set(set) == IF set = {} THEN None ELSE Some(set)

\* get the set if present, remove key, drop the entry when it became empty
by_owner_remove(s, acct, key) ==
    IF s.by_owner_id[acct] = None THEN s
    ELSE [s EXCEPT !.by_owner_id[acct] = store_index_set(Val(@) \ {key})]

\* A storage check that asks for one entry, however many the account holds
storage_paid_for_one(s, acct) ==
    s.storage_deposits[acct] >= STORAGE_ADD_MARKET_DATA

\* owner_paid_storage >= (supply + 1) * storage_minimum_balance
storage_paid_for_one_more(s, acct) ==
    s.storage_deposits[acct] >= (get_supply_by_owner_id(s, acct) + 1) * STORAGE_ADD_MARKET_DATA

\* storage_deposit (lib.rs:2727-2742)
storage_deposit(s, account_id, deposit) ==
    IF ~(deposit >= STORAGE_ADD_MARKET_DATA) THEN PANIC
    ELSE [s EXCEPT !.storage_deposits[account_id] = @ + deposit]

\* storage_withdraw that returns the whole balance
storage_withdraw_all(s, caller, attached) ==
    IF ~assert_one_yocto(attached) THEN PANIC
    ELSE [s EXCEPT !.storage_deposits[caller] = 0,
                   !.out = IF s.storage_deposits[caller] > 0
                           THEN @ \o <<Transfer(caller, s.storage_deposits[caller], "storage")>>
                           ELSE @]

\* storage_withdraw (lib.rs:2744-2759); u128 subtraction panics on underflow
storage_withdraw(s, caller, attached) ==
    LET amount == s.storage_deposits[caller]
        diff == get_supply_by_owner_id(s, caller) * STORAGE_ADD_MARKET_DATA
    IN  IF ~assert_one_yocto(attached) THEN PANIC
        ELSE IF amount < diff THEN PANIC
        ELSE [s EXCEPT !.storage_deposits[caller] = diff,
                       !.out = IF amount - diff > 0
                               THEN @ \o <<Transfer(caller, amount - diff, "storage")>>
                               ELSE @]

\* ------------------------------------------------------------ listings
\* A MarketDataV1 read as MarketData (lib.rs:423-439).  g_fee and g_inst are
\* history fields of the model: the fee captured when the listing was created and
\* the approval id it was created with (its identity as a listing instance).
FromV1(v1) ==
    [owner_id |-> v1.owner_id, approval_id |-> v1.approval_id,
     nft_contract_id |-> v1.nft_contract_id, token_id |-> v1.token_id,
     ft_token_id |-> v1.ft_token_id, price |-> v1.price,
     bids |-> None, started_at |-> None, ended_at |-> None, end_price |-> None,
     is_auction |-> None, reserve_price |-> None, g_fee |-> None, g_inst |-> 0]

\* old_market first, then market (lib.rs:422-444); None when in neither
lookup_market_data(s, nft, tok) ==
    IF s.old_market[contract_and_token_id(nft, tok)] # None
    THEN Some(FromV1(Val(s.old_market[contract_and_token_id(nft, tok)])))
    ELSE s.market[contract_and_token_id(nft, tok)]

bid_refunds_none(bids, ft_token_id) == <<>>

RECURSIVE bid_refunds(_, _)
bid_refunds(bids, ft_token_id) ==
    IF bids = <<>> THEN <<>>
    ELSE <<Transfer(Head(bids).bidder_id, Head(bids).price, ft_token_id)>>
         \o bid_refunds(Tail(bids), ft_token_id)

\* What internal_delete_market_data leaves in the two listing maps.
delete_market_data_keep(s, nft, tok) == s

\* A removal that looks at the current map only
delete_market_data_current(s, nft, tok) ==
    [s EXCEPT !.market[contract_and_token_id(nft, tok)] = None]

delete_market_data_maps(s, nft, tok) ==
    IF s.old_market[contract_and_token_id(nft, tok)] # None
    THEN [s EXCEPT !.old_market[contract_and_token_id(nft, tok)] = None]
    ELSE [s EXCEPT !.market[contract_and_token_id(nft, tok)] = None]

\* internal_delete_market_data (lib.rs:2591-2663): remove the listing, refund
\* every bid of a current listing, remove the key from the seller's index.
internal_delete_market_data(s, nft, tok) ==
    LET k == contract_and_token_id(nft, tok)
        md == lookup_market_data(s, nft, tok)
        s1 == delete_market_data_maps(s, nft, tok)
        s2 == IF s.old_market[k] = None /\ Val(md).bids # None
              THEN [s1 EXCEPT !.out = @ \o bid_refunds(Val(Val(md).bids), Val(md).ft_token_id)]
              ELSE s1
    IN  IF md = None THEN s ELSE by_owner_remove(s2, Val(md).owner_id, k)

\* The fee stored as the listing's snapshot at creation.
snapshot_fee(s) == calculate_current_transaction_fee(s)

\* internal_add_market_data (lib.rs:2425-2589)
internal_add_market_data(s, owner, approval_id, nft, tok, ft_token_id, price, started_at0, ended_at, end_price, is_auction, reserve_price0) ==
    LET k == contract_and_token_id(nft, tok)
        st1 == IF started_at0 # None /\ Val(started_at0) <= now THEN Some(now) ELSE started_at0
        started_at == IF is_auction = Some(TRUE) /\ st1 = None THEN Some(now) ELSE st1
        reserve_price == IF reserve_price0 = None THEN Some(price) ELSE reserve_price0
        ok == /\ (st1 # None /\ ended_at # None) => Val(st1) < Val(ended_at)
              /\ (is_auction = Some(TRUE)) => ended_at # None
              /\ (ended_at # None) => Val(ended_at) >= now
              /\ (end_price # None) => Val(end_price) < price
              /\ (reserve_price0 # None) => Val(reserve_price0) >= price
              /\ price < MAX_PRICE
        md == [owner_id |-> owner, approval_id |-> approval_id,
               nft_contract_id |-> nft, token_id |-> tok,
               ft_token_id |-> ft_token_id, price |-> price,
               bids |-> IF is_auction = Some(TRUE) THEN Some(<<>>) ELSE None,
               started_at |-> started_at, ended_at |-> ended_at,
               end_price |-> end_price, is_auction |-> is_auction,
               reserve_price |-> reserve_price,
               g_fee |-> Some(calculate_current_transaction_fee(s)),
               g_inst |-> approval_id]
        s1 == by_owner_insert([s EXCEPT !.market[k] = Some(md)], owner, k)
        k3 == make_triple(nft, owner, tok)
        s2 == IF s1.trades[k3] # None
              THEN [s1 EXCEPT !.trades[k3] = Some([Val(@) EXCEPT !.approval_id = approval_id])]
              ELSE s1
        s3 == apply_pending_fee(s2)
    IN  IF ~ok THEN PANIC
        ELSE [s3 EXCEPT !.market_data_transaction_fee[k] = Some(snapshot_fee(s2))]

\* ------------------------------------------------------------ buying
\* The time-curved price of a Dutch listing at or after its start
\* (lib.rs:485-491), in u128 arithmetic that wraps around; the caller has
\* checked that the duration is not 0.
dutch_price(md, t) ==
    IF t > Val(md.ended_at) THEN Val(md.end_price)
    ELSE LET drop == (md.price - Val(md.end_price)) % U128_MODULUS
             step == drop \div (Val(md.ended_at) - Val(md.started_at))
             fall == (step * (t - Val(md.started_at))) % U128_MODULUS
         IN  (md.price - fall) % U128_MODULUS

is_dutch(md) == md.is_auction # None /\ md.end_price # None

\* price - end_price of the curve (lib.rs:490) goes below zero: a build with
\* overflow checks aborts the call there.
dutch_underflows(md, t) == t <= Val(md.ended_at) /\ md.price < Val(md.end_price)

\* The price buy and internal_buy charge, or PANIC (lib.rs:472-494, 557-579),
\* in a build with or without overflow checks.
purchase_price_any_listing(md, overflow_checks) ==
    IF is_dutch(md)
    THEN IF md.ended_at = None \/ md.started_at = None THEN PANIC
         ELSE IF ~(now >= Val(md.started_at)) THEN PANIC
         ELSE IF now <= Val(md.ended_at) /\ Val(md.ended_at) = Val(md.started_at) THEN PANIC
         ELSE IF overflow_checks /\ dutch_underflows(md, now) THEN PANIC
         ELSE [price |-> dutch_price(md, now)]
    ELSE [price |-> md.price]

purchase_price(md, overflow_checks) ==
    IF is_dutch(md)
    THEN IF md.ended_at = None \/ md.started_at = None THEN PANIC
         ELSE IF ~(now >= Val(md.started_at)) THEN PANIC
         ELSE IF now <= Val(md.ended_at) /\ Val(md.ended_at) = Val(md.started_at) THEN PANIC
         ELSE IF overflow_checks /\ dutch_underflows(md, now) THEN PANIC
         ELSE [price |-> dutch_price(md, now)]
    ELSE IF md.is_auction # None /\ Val(md.is_auction) # FALSE THEN PANIC
    ELSE [price |-> md.price]

\* The promise nft_transfer_payout(...).then(resolve_purchase(...)).  paid is a
\* history field: what the buyer handed over for this purchase.
PurchasePromise(buyer_id, md, price, paid) ==
    [kind |-> "purchase", buyer_id |-> buyer_id, market_data |-> md,
     price |-> price, paid |-> paid]

\* internal_process_purchase (lib.rs:584-613)
internal_process_purchase(s, nft, tok, buyer_id, price, paid) ==
    LET md == lookup_market_data(s, nft, tok)
        s1 == internal_delete_market_data(s, nft, tok)
    IN  IF md = None THEN PANIC
        ELSE [s1 EXCEPT !.calls = Append(@, PurchasePromise(buyer_id, Val(md), price, paid))]

\* buy (lib.rs:413-503); ft_token_id and price are Option arguments
buy(s, caller, nft, tok, ft_token_id, price, attached, overflow_checks) ==
    LET md == lookup_market_data(s, nft, tok)
        pp == purchase_price(Val(md), overflow_checks)
    IN  IF md = None THEN PANIC
        ELSE IF caller = Val(md).owner_id THEN PANIC
        ELSE IF Val(md).ft_token_id # NEAR THEN PANIC
        ELSE IF ft_token_id # None /\ Val(ft_token_id) # Val(md).ft_token_id THEN PANIC
        ELSE IF price # None /\ Val(price) # Val(md).price THEN PANIC
        ELSE IF pp = PANIC THEN PANIC
        ELSE IF ~(attached >= pp.price) THEN PANIC
        ELSE internal_process_purchase(s, nft, tok, caller, pp.price, attached)

\* internal_buy (lib.rs:505-582), reached from ft_on_transfer with method "buy"
internal_buy(s, nft, tok, ft_token_id, sender, price, overflow_checks) ==
    LET md == lookup_market_data(s, nft, tok)
        pp == purchase_price(Val(md), overflow_checks)
    IN  IF md = None THEN PANIC
        ELSE IF sender = Val(md).owner_id THEN PANIC
        ELSE IF ft_token_id # Val(md).ft_token_id THEN PANIC
        ELSE IF price # Val(md).price THEN PANIC
        ELSE IF pp = PANIC THEN PANIC
        ELSE internal_process_purchase(s, nft, tok, sender, pp.price, price)

\* ------------------------------------------------------------ resolve_purchase
RECURSIVE SumMap(_)
SumMap(f) ==
    IF DOMAIN f = {} THEN 0
    ELSE LET a == CHOOSE x \in DOMAIN f : TRUE
         IN  f[a] + SumMap([x \in DOMAIN f \ {a} |-> f[x]])

\* A promise result: ok = is_promise_success(); for a successful one, shape is
\* how the returned bytes parse ("bare" = {account: amount}, "wrapped" =
\* {payout: {account: amount}}, "garbage" = neither) and map the amounts.
FailedResult == [ok |-> FALSE]
PayoutResult(shape, map) == [ok |-> TRUE, shape |-> shape, map |-> map]

\* payout_option of resolve_purchase / resolve_offer (lib.rs:623-652):
\* the map, if the bytes parse and 0 <= price - sum <= 100
payout_option(result, price) ==
    IF ~result.ok \/ result.shape = "garbage" THEN None
    ELSE IF SumMap(result.map) > price THEN None
    ELSE IF price - SumMap(result.map) <= PAYOUT_TOLERANCE THEN Some(result.map)
    ELSE None

\* The treasury's share of a price at a fee in basis points (lib.rs:693-698)
treasury_fee_none(price, fee_bps) == 0

treasury_fee_of(price, fee_bps) == (price * fee_bps) \div FEE_DENOMINATOR

\* The payout loop subtracts the fee from the seller's amount in u128
\* (lib.rs:786).  With an amount below the fee, a build with overflow checks
\* aborts the callback and a build without them wraps the difference around.
payout_underflows(payout, seller_id, fee) ==
    seller_id \in DOMAIN payout /\ payout[seller_id] < fee

\* The transfers of the payout loop (lib.rs:783-849), in the order of an
\* iteration over the map.
RECURSIVE payout_transfers(_, _, _, _, _)
payout_transfers(payout, seller_id, ft_token_id, fee, treasury) ==
    IF DOMAIN payout = {} THEN <<>>
    ELSE LET r == CHOOSE x \in DOMAIN payout : TRUE
             mine == IF r = seller_id
                     THEN <<Transfer(r, (payout[r] - fee) % U128_MODULUS, ft_token_id)>>
                          \o (IF fee # 0 THEN <<Transfer(treasury, fee, ft_token_id)>>
                              ELSE <<>>)
                     ELSE <<Transfer(r, payout[r], ft_token_id)>>
         IN  mine \o payout_transfers([x \in DOMAIN payout \ {r} |-> payout[x]],
                                      seller_id, ft_token_id, fee, treasury)

\* What resolve_purchase sends when the NFT transfer failed (lib.rs:657-677).
purchase_refund_none(buyer_id, md, price) == <<>>

purchase_refund(buyer_id, md, price) == <<Transfer(buyer_id, price, md.ft_token_id)>>

\* resolve_purchase (lib.rs:615-874) on the promise result `result`, in a build
\* with or without overflow checks
resolve_purchase(s, buyer_id, md, price, result, overflow_checks) ==
    LET k == contract_and_token_id(md.nft_contract_id, md.token_id)
        payout == payout_option(result, price)
        fee == treasury_fee_of(price,
                   calculate_market_data_transaction_fee(s, md.nft_contract_id, md.token_id))
        s1 == after_market_data_transaction_fee(s, md.nft_contract_id, md.token_id)
        s2 == [s1 EXCEPT !.market_data_transaction_fee[k] = None]
        pt == payout_transfers(Val(payout), md.owner_id, md.ft_token_id, fee, s.treasury_id)
    IN  IF payout = None
        THEN IF ~result.ok
             THEN [s EXCEPT !.out = @ \o purchase_refund(buyer_id, md, price)]
             ELSE [s2 EXCEPT !.out = @ \o <<Transfer(md.owner_id, price - fee, md.ft_token_id)>>
                                       \o (IF fee > 0
                                           THEN <<Transfer(s.treasury_id, fee, md.ft_token_id)>>
                                           ELSE <<>>)]
        ELSE IF overflow_checks /\ payout_underflows(Val(payout), md.owner_id, fee) THEN PANIC
        ELSE [s2 EXCEPT !.out = @ \o pt,
                        !.trades[make_triple(md.nft_contract_id, md.owner_id, md.token_id)] = None]

\* ------------------------------------------------------------ auction bids
Bid(bidder_id, price) == [bidder_id |-> bidder_id, price |-> price]

bids_keep(bids, account_id) == bids

bids_without(bids, account_id) == SelectSeq(bids, LAMBDA b : b.bidder_id # account_id)
bids_of(bids, account_id) == SelectSeq(bids, LAMBDA b : b.bidder_id = account_id)

\* current_bid.price + (current_bid.price / 100 * 5) (lib.rs:1939, 2078), in
\* u128 arithmetic that wraps around
min_next_bid(top_price) == (top_price + (top_price \div 100) * 5) % U128_MODULUS

\* The sum above exceeds u128: a build with overflow checks aborts the call.
min_next_bid_overflows(top_price) == top_price + (top_price \div 100) * 5 >= U128_MODULUS

\* ended_at after the anti-sniping rule (lib.rs:1888-1891)
extended_never(ended_at) == ended_at

extended_ended_at(ended_at) ==
    IF ended_at - now <= FIVE_MINUTES THEN ended_at + FIVE_MINUTES ELSE ended_at

\* internal_cancel_bid (lib.rs:2179-2237): refund and remove the bids of account_id
internal_cancel_bid(s, nft, tok, account_id) ==
    LET k == contract_and_token_id(nft, tok)
        md == s.market[k]
        bids == Val(Val(md).bids)
    IN  IF md = None THEN PANIC
        ELSE IF Val(md).bids = None THEN PANIC
        ELSE IF bids = <<>> THEN PANIC
        ELSE [s EXCEPT !.out = @ \o bid_refunds(bids_of(bids, account_id), Val(md).ft_token_id),
                       !.market[k] = Some([Val(md) EXCEPT !.bids =
                                              Some(bids_without(bids, account_id))])]

\* place_bid without the removal of the oldest bid
place_bid_uncapped(s, nft, tok, bidder_id, amount, refund_token, overflow_checks) ==
    LET k == contract_and_token_id(nft, tok)
        md == Val(s.market[k])
        bids == IF md.bids = None THEN <<>> ELSE Val(md.bids)
        top == bids[Len(bids)]
        kept == IF bids = <<>> THEN bids ELSE bids_without(bids, bidder_id)
        refunds == IF bids = <<>> THEN <<>>
                   ELSE bid_refunds(bids_of(bids, bidder_id), refund_token)
        updated == Append(kept, Bid(bidder_id, amount))
        md1 == [md EXCEPT !.ended_at = Some(extended_ended_at(Val(md.ended_at))),
                          !.bids = Some(updated)]
    IN  IF bids # <<>> /\ overflow_checks /\ min_next_bid_overflows(top.price) THEN PANIC
        ELSE IF bids # <<>> /\ ~(amount >= min_next_bid(top.price)) THEN PANIC
        ELSE IF ~(amount >= md.price) THEN PANIC
        ELSE [s EXCEPT !.out = @ \o refunds, !.market[k] = Some(md1)]

\* The common part of add_bid and internal_ft_token_add_bid once the payment
\* checks passed (lib.rs:1872-1979, 2013-2132); refunds go out in refund_token.
place_bid(s, nft, tok, bidder_id, amount, refund_token, overflow_checks) ==
    LET k == contract_and_token_id(nft, tok)
        md == Val(s.market[k])
        bids == IF md.bids = None THEN <<>> ELSE Val(md.bids)
        top == bids[Len(bids)]
        kept == IF bids = <<>> THEN bids ELSE bids_without(bids, bidder_id)
        refunds == IF bids = <<>> THEN <<>>
                   ELSE bid_refunds(bids_of(bids, bidder_id), refund_token)
        updated == Append(kept, Bid(bidder_id, amount))
        md1 == [md EXCEPT !.ended_at = Some(extended_ended_at(Val(md.ended_at))),
                          !.bids = Some(updated)]
        s1 == [s EXCEPT !.out = @ \o refunds, !.market[k] = Some(md1)]
    IN  IF bids # <<>> /\ overflow_checks /\ min_next_bid_overflows(top.price) THEN PANIC
        ELSE IF bids # <<>> /\ ~(amount >= min_next_bid(top.price)) THEN PANIC
        ELSE IF ~(amount >= md.price) THEN PANIC
        ELSE IF Len(updated) >= MAX_BIDS
        THEN internal_cancel_bid(s1, nft, tok, updated[1].bidder_id)
        ELSE s1

\* The checks add_bid and internal_ft_token_add_bid share before the payment
\* checks (lib.rs:1866-1909): listing in the current map, time window, not the seller.
bid_window_ok(s, nft, tok, bidder_id) ==
    LET md == s.market[contract_and_token_id(nft, tok)]
    IN  /\ md # None
        /\ Val(md).started_at # None => now >= Val(Val(md).started_at)
        /\ Val(md).ended_at # None
        /\ now <= Val(Val(md).ended_at)
        /\ Val(md).owner_id # bidder_id

\* add_bid (lib.rs:1857-1994)
add_bid(s, caller, nft, ft_token_id, tok, amount, attached, overflow_checks) ==
    IF ~bid_window_ok(s, nft, tok, caller) THEN PANIC
    ELSE IF ~(attached >= amount) THEN PANIC
    ELSE IF ft_token_id # NEAR THEN PANIC
    ELSE IF Val(s.market[contract_and_token_id(nft, tok)]).ft_token_id # NEAR THEN PANIC
    ELSE IF Val(s.market[contract_and_token_id(nft, tok)]).end_price # None THEN PANIC
    ELSE place_bid(s, nft, tok, caller, amount, NEAR, overflow_checks)

\* internal_ft_token_add_bid (lib.rs:1996-2147)
internal_ft_token_add_bid(s, nft, ft_token_id, tok, sender_id, amount, overflow_checks) ==
    IF ~bid_window_ok(s, nft, tok, sender_id) THEN PANIC
    ELSE IF ft_token_id # Val(s.market[contract_and_token_id(nft, tok)]).ft_token_id THEN PANIC
    ELSE IF Val(s.market[contract_and_token_id(nft, tok)]).end_price # None THEN PANIC
    ELSE place_bid(s, nft, tok, sender_id, amount, ft_token_id, overflow_checks)

\* ft_on_transfer (token_receiver.rs:27-55): a method other than "auction" and
\* "buy" does nothing and returns 0.
ft_on_transfer(s, sender_id, amount, msg, overflow_checks) ==
    IF msg.method = "auction"
    THEN internal_ft_token_add_bid(s, msg.nft_contract_id, msg.ft_token_id,
                                   msg.token_id, sender_id, amount, overflow_checks)
    ELSE IF msg.method = "buy"
    THEN internal_buy(s, msg.nft_contract_id, msg.token_id, msg.ft_token_id,
                      sender_id, amount, overflow_checks)
    ELSE s

\* cancel_bid (lib.rs:2239-2268)
cancel_bid(s, caller, nft, tok, account_id) ==
    LET md == s.market[contract_and_token_id(nft, tok)]
    IN  IF md = None THEN PANIC
        ELSE IF Val(md).bids = None THEN PANIC
        ELSE IF Val(Val(md).bids) = <<>> THEN PANIC
        ELSE IF bids_of(Val(Val(md).bids), account_id) # <<>>
                /\ caller \notin {account_id, s.owner_id} THEN PANIC
        ELSE internal_cancel_bid(s, nft, tok, account_id)

\* Who may call accept_bid (lib.rs:2292-2300)
may_accept_bid_anyone(s, caller, md, selected_bid) == TRUE

may_accept_bid(s, caller, md, selected_bid) ==
    caller \in {md.owner_id, s.owner_id, selected_bid.bidder_id}

\* accept_bid (lib.rs:2270-2357)
accept_bid(s, caller, nft, tok) ==
    LET k == contract_and_token_id(nft, tok)
        md == Val(s.market[k])
        bids == Val(md.bids)
        selected_bid == bids[Len(bids)]
        others == SubSeq(bids, 1, Len(bids) - 1)
        s1 == [s EXCEPT !.out = @ \o bid_refunds(others, md.ft_token_id),
                        !.market[k] = Some([md EXCEPT !.bids = Some(<<>>)])]
    IN  IF s.market[k] = None THEN PANIC
        ELSE IF md.bids = None THEN PANIC
        ELSE IF bids = <<>> THEN PANIC
        ELSE IF ~may_accept_bid(s, caller, md, selected_bid) THEN PANIC
        ELSE IF caller # s.owner_id /\ md.ended_at # None /\ ~(now >= Val(md.ended_at))
        THEN PANIC
        ELSE IF selected_bid.bidder_id = caller /\ md.reserve_price = None THEN PANIC
        ELSE IF selected_bid.bidder_id = caller
                /\ ~(selected_bid.price >= Val(md.reserve_price)) THEN PANIC
        ELSE IF md.end_price # None THEN PANIC
        ELSE internal_process_purchase(s1, md.nft_contract_id, tok,
                                       selected_bid.bidder_id, selected_bid.price,
                                       selected_bid.price)

\* ------------------------------------------------------------ listing update / delete
\* update_market_data open to the contract owner as well as the seller
update_market_data_seller_or_owner(s, caller, nft, tok, ft_token_id, price, reserve_price) ==
    LET k == contract_and_token_id(nft, tok)
        md == Val(s.market[k])
    IN  IF s.market[k] = None THEN PANIC
        ELSE IF caller \notin {md.owner_id, s.owner_id} THEN PANIC
        ELSE IF ft_token_id # md.ft_token_id THEN PANIC
        ELSE IF ~(price < MAX_PRICE) THEN PANIC
        ELSE IF reserve_price # None /\ ~(Val(reserve_price) >= price) THEN PANIC
        ELSE [s EXCEPT !.market[k] = Some([md EXCEPT
                 !.reserve_price = IF reserve_price = None THEN Some(price) ELSE reserve_price,
                 !.price = price])]

\* update_market_data (lib.rs:2361-2423)
update_market_data(s, caller, nft, tok, ft_token_id, price, reserve_price) ==
    LET k == contract_and_token_id(nft, tok)
        md == Val(s.market[k])
    IN  IF s.market[k] = None THEN PANIC
        ELSE IF md.owner_id # caller THEN PANIC
        ELSE IF ft_token_id # md.ft_token_id THEN PANIC
        ELSE IF ~(price < MAX_PRICE) THEN PANIC
        ELSE IF reserve_price # None /\ ~(Val(reserve_price) >= price) THEN PANIC
        ELSE [s EXCEPT !.market[k] = Some([md EXCEPT
                 !.reserve_price = IF reserve_price = None THEN Some(price) ELSE reserve_price,
                 !.price = price])]

\* delete_market_data without its check of the caller
delete_market_data_by_anyone(s, caller, nft, tok) ==
    IF lookup_market_data(s, nft, tok) = None THEN PANIC
    ELSE internal_delete_market_data(s, nft, tok)

\* delete_market_data (lib.rs:2665-2723)
delete_market_data(s, caller, nft, tok) ==
    LET md == lookup_market_data(s, nft, tok)
    IN  IF md = None THEN PANIC
        ELSE IF caller \notin {Val(md).owner_id, s.owner_id} THEN PANIC
        ELSE internal_delete_market_data(s, nft, tok)

\* get_market_data (lib.rs:2771-2838): the price and reserve price of the view
\* at the current time, in a build with or without overflow checks
get_market_data(s, nft, tok, overflow_checks) ==
    LET m == lookup_market_data(s, nft, tok)
        md == Val(m)
    IN  IF m = None THEN PANIC
        ELSE IF ~is_dutch(md) THEN [price |-> md.price, reserve_price |-> md.reserve_price]
        ELSE IF md.started_at = None \/ md.ended_at = None THEN PANIC
        ELSE IF now < Val(md.started_at)
        THEN [price |-> md.price, reserve_price |-> md.reserve_price]
        ELSE IF now <= Val(md.ended_at) /\ Val(md.ended_at) = Val(md.started_at) THEN PANIC
        ELSE IF overflow_checks /\ dutch_underflows(md, now) THEN PANIC
        ELSE [price |-> dutch_price(md, now), reserve_price |-> md.reserve_price]

\* ------------------------------------------------------------ offers
OfferData(buyer_id, nft, token_id, series_id, ft_token_id, price) ==
    [buyer_id |-> buyer_id, nft_contract_id |-> nft, token_id |-> token_id,
     token_series_id |-> series_id, ft_token_id |-> ft_token_id, price |-> price]

\* token_id if given, else token_series_id (lib.rs:887-891)
token_or_series(token_id, series_id) == IF token_id # None THEN Val(token_id) ELSE Val(series_id)

\* internal_add_offer (lib.rs:878-917)
internal_add_offer(s, nft, token_id, series_id, ft_token_id, price, buyer_id) ==
    LET k3 == make_triple(nft, buyer_id, token_or_series(token_id, series_id))
    IN  by_owner_insert(
            [s EXCEPT !.offers[k3] =
                Some(OfferData(buyer_id, nft, token_id, series_id, ft_token_id, price))],
            buyer_id, k3)

\* internal_delete_offer that leaves the buyer's index as it is
internal_delete_offer_keeps_index(s, nft, buyer_id, token) ==
    LET k3 == make_triple(nft, buyer_id, token)
    IN  IF s.offers[k3] = None THEN s ELSE [s EXCEPT !.offers[k3] = None]

\* internal_delete_offer (lib.rs:999-1023): the state after it
internal_delete_offer(s, nft, buyer_id, token) ==
    LET k3 == make_triple(nft, buyer_id, token)
    IN  IF s.offers[k3] = None THEN s
        ELSE by_owner_remove([s EXCEPT !.offers[k3] = None], Val(s.offers[k3]).buyer_id, k3)

\* add_offer that keeps the funds of the offer it replaces
add_offer_without_refund(s, caller, nft, token_id, series_id, ft_token_id, price, attached) ==
    LET token == token_or_series(token_id, series_id)
        s1 == internal_delete_offer(s, nft, caller, token)
    IN  IF token_id = None /\ nft \notin s.marble_nft_contracts THEN PANIC
        ELSE IF attached # price THEN PANIC
        ELSE IF ft_token_id # NEAR THEN PANIC
        ELSE IF ~storage_paid_for_one_more(s1, caller) THEN PANIC
        ELSE internal_add_offer(s1, nft, token_id, series_id, ft_token_id, price, caller)

\* add_offer (lib.rs:919-997)
add_offer(s, caller, nft, token_id, series_id, ft_token_id, price, attached) ==
    LET token == token_or_series(token_id, series_id)
        old == s.offers[make_triple(nft, caller, token)]
        s1 == internal_delete_offer(s, nft, caller, token)
        s2 == IF old # None
              THEN [s1 EXCEPT !.out = @ \o <<Transfer(caller, Val(old).price, NEAR)>>]
              ELSE s1
    IN  IF token_id = None /\ nft \notin s.marble_nft_contracts THEN PANIC
        ELSE IF attached # price THEN PANIC
        ELSE IF ft_token_id # NEAR THEN PANIC
        ELSE IF ~storage_paid_for_one_more(s2, caller) THEN PANIC
        ELSE internal_add_offer(s2, nft, token_id, series_id, ft_token_id, price, caller)

\* delete_offer (lib.rs:1025-1079)
delete_offer(s, caller, attached, nft, token_id, series_id) ==
    LET token == token_or_series(token_id, series_id)
        offer == s.offers[make_triple(nft, caller, token)]
    IN  IF ~assert_one_yocto(attached) THEN PANIC
        ELSE IF offer = None THEN PANIC
        ELSE IF token_id # None /\ Val(offer).token_id # Some(token) THEN PANIC
        ELSE IF token_id = None /\ Val(offer).token_series_id # Some(token) THEN PANIC
        ELSE IF Val(offer).buyer_id # caller THEN PANIC
        ELSE [internal_delete_offer(s, nft, caller, token)
                 EXCEPT !.out = @ \o <<Transfer(Val(offer).buyer_id, Val(offer).price, NEAR)>>]

\* get_offer (lib.rs:1081-1115): the offer, or a panic
get_offer(s, nft, buyer_id, token_id, series_id) ==
    LET token == token_or_series(token_id, series_id)
        offer == s.offers[make_triple(nft, buyer_id, token)]
    IN  IF offer = None THEN PANIC
        ELSE IF token_id # None /\ Val(offer).token_id # Some(token) THEN PANIC
        ELSE IF token_id = None /\ Val(offer).token_series_id # Some(token) THEN PANIC
        ELSE Val(offer)

\* The promise nft_transfer_payout(...).then(resolve_offer(...))
OfferPromise(seller_id, offer_data, token_id, approval_id) ==
    [kind |-> "offer", seller_id |-> seller_id, offer_data |-> offer_data,
     token_id |-> token_id, approval_id |-> approval_id]

\* Acceptance that does not compare the stored price with the one in the message
accept_offer_on_any_price(s, nft, buyer_id, token_id, offer_token, is_series, seller_id, approval_id, price) ==
    LET s1 == internal_delete_market_data(s, nft, token_id)
        offer == s1.offers[make_triple(nft, buyer_id, offer_token)]
        named == IF is_series THEN Val(offer).token_series_id ELSE Val(offer).token_id
    IN  IF offer = None THEN PANIC
        ELSE IF named # Some(offer_token) THEN PANIC
        ELSE [internal_delete_offer(s1, nft, buyer_id, offer_token)
                 EXCEPT !.calls = Append(@, OfferPromise(seller_id, Val(offer), token_id,
                                                         approval_id))]

\* internal_accept_offer and internal_accept_offer_series (lib.rs:1117-1221);
\* offer_token is token_id for the first and its series for the second.
accept_offer_on(s, nft, buyer_id, token_id, offer_token, is_series, seller_id, approval_id, price) ==
    LET s1 == internal_delete_market_data(s, nft, token_id)
        offer == s1.offers[make_triple(nft, buyer_id, offer_token)]
        named == IF is_series THEN Val(offer).token_series_id ELSE Val(offer).token_id
    IN  IF offer = None THEN PANIC
        ELSE IF named # Some(offer_token) THEN PANIC
        ELSE IF Val(offer).price # price THEN PANIC
        ELSE [internal_delete_offer(s1, nft, buyer_id, offer_token)
                 EXCEPT !.calls = Append(@, OfferPromise(seller_id, Val(offer), token_id,
                                                         approval_id))]

internal_accept_offer(s, nft, buyer_id, token_id, seller_id, approval_id, price) ==
    accept_offer_on(s, nft, buyer_id, token_id, token_id, FALSE, seller_id, approval_id, price)

internal_accept_offer_series(s, nft, buyer_id, token_id, seller_id, approval_id, price) ==
    accept_offer_on(s, nft, buyer_id, token_id, token_series_id(token_id), TRUE,
                    seller_id, approval_id, price)

\* resolve_offer (lib.rs:1223-1357); it uses the current fee, and does nothing
\* for an offer whose token is not the native coin.
resolve_offer(s, seller_id, offer_data, token_id, result, overflow_checks) ==
    LET payout == payout_option(result, offer_data.price)
        fee == treasury_fee_of(offer_data.price, calculate_current_transaction_fee(s))
        s1 == apply_pending_fee(s)
    IN  IF payout = None
        THEN IF ~result.ok
             THEN IF offer_data.ft_token_id = NEAR
                  THEN [s EXCEPT !.out = @ \o <<Transfer(offer_data.buyer_id,
                                                         offer_data.price, NEAR)>>]
                  ELSE s
             ELSE IF offer_data.ft_token_id = NEAR
             THEN [s1 EXCEPT !.out = @ \o <<Transfer(seller_id, offer_data.price - fee, NEAR)>>
                                      \o (IF fee > 0 THEN <<Transfer(s.treasury_id, fee, NEAR)>>
                                          ELSE <<>>)]
             ELSE s
        ELSE IF offer_data.ft_token_id # NEAR THEN s
        ELSE IF overflow_checks /\ payout_underflows(Val(payout), seller_id, fee) THEN PANIC
        ELSE [s1 EXCEPT !.out = @ \o payout_transfers(Val(payout), seller_id, NEAR, fee,
                                                      s.treasury_id),
                        !.trades[make_triple(offer_data.nft_contract_id, seller_id, token_id)]
                            = None]

\* ------------------------------------------------------------ trades
TradeData(nft, token_id, series_id) ==
    [nft_contract_id |-> nft, token_id |-> token_id, token_series_id |-> series_id]

\* HashMap insert / remove on a map held as a function
map_insert(m, k, v) == [x \in DOMAIN m \cup {k} |-> IF x = k THEN v ELSE m[x]]
map_remove(m, k) == [x \in DOMAIN m \ {k} |-> m[x]]
EmptyMap == [x \in {} |-> 0]

\* internal_add_trade (lib.rs:1397-1464), reached through add_trade (lib.rs:1360-1395)
internal_add_trade(s, nft, token_id, series_id, buyer_nft, buyer_token_id, buyer_id, buyer_approval_id) ==
    LET k3 == make_triple(nft, buyer_id, token_or_series(token_id, series_id))
        bk3 == make_triple(buyer_nft, buyer_id, Val(buyer_token_id))
        list == IF s.trades[bk3] = None THEN [approval_id |-> 0, trade_data |-> EmptyMap]
                ELSE Val(s.trades[bk3])
        list1 == [approval_id |-> buyer_approval_id,
                  trade_data |-> map_insert(list.trade_data, k3,
                                            TradeData(nft, token_id, series_id))]
    IN  IF token_id = None /\ nft \notin s.marble_nft_contracts THEN PANIC
        ELSE IF buyer_token_id = None THEN PANIC
        ELSE by_owner_insert([s EXCEPT !.trades[bk3] = Some(list1)], buyer_id,
                             make_key_owner_by_id_trade(k3))

\* internal_delete_trade (lib.rs:1528-1571)
internal_delete_trade(s, nft, buyer_id, token, buyer_nft, buyer_token_id) ==
    LET bk3 == make_triple(buyer_nft, buyer_id, buyer_token_id)
        k3 == make_triple(nft, buyer_id, token)
        list == Val(s.trades[bk3])
        s1 == [s EXCEPT !.trades[bk3] =
                  Some([list EXCEPT !.trade_data = map_remove(list.trade_data, k3)])]
    IN  IF s.trades[bk3] = None THEN PANIC
        ELSE IF k3 \in DOMAIN list.trade_data
        THEN IF s.by_owner_id[buyer_id] = None THEN PANIC
             ELSE by_owner_remove(s1, buyer_id, make_key_owner_by_id_trade(k3))
        ELSE [s1 EXCEPT !.trades[bk3] = None]

\* delete_trade (lib.rs:1466-1526)
delete_trade(s, caller, nft, token_id, series_id, buyer_nft, buyer_token_id) ==
    LET token == token_or_series(token_id, series_id)
        bk3 == make_triple(buyer_nft, caller, buyer_token_id)
        k3 == make_triple(nft, caller, token)
        td == Val(s.trades[bk3]).trade_data
    IN  IF s.trades[bk3] = None THEN PANIC
        ELSE IF k3 \notin DOMAIN td THEN PANIC
        ELSE IF token_id # None /\ td[k3].token_id # Some(token) THEN PANIC
        ELSE IF token_id = None /\ td[k3].token_series_id # Some(token) THEN PANIC
        ELSE internal_delete_trade(s, nft, caller, token, buyer_nft, buyer_token_id)

\* The promise chain of trade_swap_nft (lib.rs:1716-1759):
\* nft_transfer(buyer token -> market).then(callback_first_trade).then(callback_second_trade)
TradePromise(buyer_id, buyer_nft, buyer_token_id, buyer_approval_id, seller_id, seller_nft, seller_token_id, seller_approval_id) ==
    [kind |-> "first_trade", buyer_id |-> buyer_id, buyer_nft_contract_id |-> buyer_nft,
     buyer_token_id |-> buyer_token_id, buyer_approval_id |-> buyer_approval_id,
     seller_id |-> seller_id, seller_nft_contract_id |-> seller_nft,
     seller_token_id |-> seller_token_id, seller_approval_id |-> seller_approval_id]

trade_swap_nft(s, buyer_id, buyer_nft, buyer_token_id, buyer_approval_id, seller_id, seller_nft, seller_token_id, seller_approval_id) ==
    [s EXCEPT !.calls = Append(@, TradePromise(buyer_id, buyer_nft, buyer_token_id,
                                               buyer_approval_id, seller_id, seller_nft,
                                               seller_token_id, seller_approval_id))]

\* What accepting a trade removes from the trades map (lib.rs:1641-1648, 1701-1702)
accept_trade_keep(s, seller_k3, buyer_k3) == s

accept_trade_remove(s, seller_k3, buyer_k3) ==
    [s EXCEPT !.trades[seller_k3] = None, !.trades[buyer_k3] = None]

\* internal_accept_trade and internal_accept_trade_series (lib.rs:1611-1714);
\* wanted is token_id for the first and its series for the second.
accept_trade_on(s, nft, buyer_id, token_id, wanted, is_series, seller_id, approval_id, buyer_nft, buyer_token_id) ==
    LET bk3 == make_triple(buyer_nft, buyer_id, buyer_token_id)
        k3 == make_triple(nft, buyer_id, wanted)
        list == Val(s.trades[bk3])
        s1 == internal_delete_market_data(s, nft, token_id)
        s2 == internal_delete_market_data(s1, buyer_nft, buyer_token_id)
        s3 == accept_trade_remove(s2, make_triple(nft, seller_id, token_id), bk3)
    IN  IF s.trades[bk3] = None THEN PANIC
        ELSE IF k3 \notin DOMAIN list.trade_data THEN PANIC
        ELSE IF is_series /\ list.trade_data[k3].token_series_id # Some(wanted) THEN PANIC
        ELSE trade_swap_nft(s3, buyer_id, buyer_nft, buyer_token_id, list.approval_id,
                            seller_id, nft, token_id, approval_id)

internal_accept_trade(s, nft, buyer_id, token_id, seller_id, approval_id, buyer_nft, buyer_token_id) ==
    accept_trade_on(s, nft, buyer_id, token_id, token_id, FALSE, seller_id, approval_id,
                    buyer_nft, buyer_token_id)

internal_accept_trade_series(s, nft, buyer_id, token_id, seller_id, approval_id, buyer_nft, buyer_token_id) ==
    accept_trade_on(s, nft, buyer_id, token_id, token_series_id(token_id), TRUE, seller_id,
                    approval_id, buyer_nft, buyer_token_id)

\* The nft_transfer that callback_first_trade returns (lib.rs:1771-1778); its
\* result is what callback_second_trade sees.
SecondTradePromise(p) == [p EXCEPT !.kind = "second_trade"]

\* callback_first_trade (lib.rs:1761-1780): the call it makes, or PANIC
callback_first_trade_always(p, result) == [call |-> SecondTradePromise(p)]

callback_first_trade(p, result) ==
    IF ~result.ok THEN PANIC ELSE [call |-> SecondTradePromise(p)]

\* internal_swap_nft (lib.rs:1814-1854):
\* nft_transfer(buyer token -> seller).then(nft_transfer(seller token -> buyer))
SwapPromise(p) == [p EXCEPT !.kind = "swap_first"]
SwapSecondPromise(p) == [p EXCEPT !.kind = "swap_second"]

internal_swap_nft(s, p) == [s EXCEPT !.calls = Append(@, SwapPromise(p))]

\* The nft_transfer of the buyer's token back to the buyer (lib.rs:1793-1800)
RollbackPromise(p) == [p EXCEPT !.kind = "rollback"]

\* env::panic_str: the transaction, with whatever it did and scheduled, is discarded
panic_str(s) == PANIC

\* callback_second_trade (lib.rs:1782-1812).  On a failed result it schedules the
\* transfer of the buyer's token back and then panics.
callback_second_trade(s, p, result) ==
    IF ~result.ok
    THEN panic_str([s EXCEPT !.calls = Append(@, RollbackPromise(p))])
    ELSE internal_swap_nft(s, p)

\* ------------------------------------------------------------ nft_on_approve
\* MarketArgs (nft_callbacks.rs:5-33) with every optional field absent
MarketArgs(market_type) ==
    [ft_token_id |-> None, price |-> None, started_at |-> None, ended_at |-> None,
     end_price |-> None, is_auction |-> None, reserve_price |-> None, buyer_id |-> None,
     buyer_token_id |-> None, seller_token_id |-> None, buyer_nft_contract_id |-> None,
     seller_nft_contract_id |-> None, market_type |-> market_type,
     seller_token_series_id |-> None]

\* "replace old data approval id" (nft_callbacks.rs:91-97, 178-184)
replace_trade_approval_id(s, nft, owner, tok, approval_id) ==
    IF s.trades[make_triple(nft, owner, tok)] # None
    THEN [s EXCEPT !.trades[make_triple(nft, owner, tok)] =
             Some([Val(@) EXCEPT !.approval_id = approval_id])]
    ELSE s

\* market_type == "sale" that aborts when the storage paid does not cover one more entry
on_approve_sale_unpaid_aborts(s, nft, tok, owner, approval_id, msg) ==
    LET s1 == replace_trade_approval_id(s, nft, owner, tok, approval_id)
        s2 == internal_delete_market_data(s1, nft, tok)
        ft_token_id_res == IF msg.ft_token_id = None THEN NEAR ELSE Val(msg.ft_token_id)
    IN  IF msg.price = None THEN PANIC
        ELSE IF ~storage_paid_for_one_more(s1, owner) THEN PANIC
        ELSE IF ft_token_id_res \notin s.approved_ft_token_ids THEN PANIC
        ELSE internal_add_market_data(s2, owner, approval_id, nft, tok, ft_token_id_res,
                                      Val(msg.price), msg.started_at, msg.ended_at,
                                      msg.end_price, msg.is_auction, msg.reserve_price)

\* market_type == "sale" (nft_callbacks.rs:87-135)
on_approve_sale(s, nft, tok, owner, approval_id, msg) ==
    LET s1 == replace_trade_approval_id(s, nft, owner, tok, approval_id)
        s2 == internal_delete_market_data(s1, nft, tok)
        ft_token_id_res == IF msg.ft_token_id = None THEN NEAR ELSE Val(msg.ft_token_id)
    IN  IF msg.price = None THEN PANIC
        ELSE IF ~storage_paid_for_one_more(s1, owner) THEN s1
        ELSE IF ft_token_id_res \notin s.approved_ft_token_ids THEN PANIC
        ELSE internal_add_market_data(s2, owner, approval_id, nft, tok, ft_token_id_res,
                                      Val(msg.price), msg.started_at, msg.ended_at,
                                      msg.end_price, msg.is_auction, msg.reserve_price)

\* market_type == "add_trade" (nft_callbacks.rs:170-210)
on_approve_add_trade(s, nft, tok, owner, approval_id, msg) ==
    LET k == contract_and_token_id(nft, tok)
        s1 == IF s.market[k] # None
              THEN [s EXCEPT !.market[k] = Some([Val(@) EXCEPT !.approval_id = approval_id])]
              ELSE s
        s2 == replace_trade_approval_id(s1, nft, owner, tok, approval_id)
    IN  IF ~storage_paid_for_one_more(s2, owner) THEN s2
        ELSE IF msg.seller_nft_contract_id = None THEN PANIC
        ELSE IF msg.seller_token_id = None /\ msg.seller_token_series_id = None THEN PANIC
        ELSE internal_add_trade(s2, Val(msg.seller_nft_contract_id), msg.seller_token_id,
                                msg.seller_token_series_id, nft, Some(tok), owner, approval_id)

\* nft_on_approve (nft_callbacks.rs:47-256); nft is the predecessor, and the
\* NFT contract passes the signer as owner_id.
nft_on_approve(s, nft, tok, owner, approval_id, msg) ==
    IF nft = MARKET THEN PANIC
    ELSE IF nft \notin s.approved_nft_contract_ids THEN PANIC
    ELSE IF msg.market_type = "sale" THEN on_approve_sale(s, nft, tok, owner, approval_id, msg)
    ELSE IF msg.market_type = "accept_offer"
    THEN IF msg.buyer_id = None \/ msg.price = None THEN PANIC
         ELSE internal_accept_offer(s, nft, Val(msg.buyer_id), tok, owner, approval_id,
                                    Val(msg.price))
    ELSE IF msg.market_type = "accept_offer_marble_series"
    THEN IF msg.buyer_id = None \/ nft \notin s.marble_nft_contracts \/ msg.price = None
         THEN PANIC
         ELSE internal_accept_offer_series(s, nft, Val(msg.buyer_id), tok, owner,
                                           approval_id, Val(msg.price))
    ELSE IF msg.market_type = "add_trade"
    THEN on_approve_add_trade(s, nft, tok, owner, approval_id, msg)
    ELSE IF msg.market_type = "accept_trade"
    THEN IF msg.buyer_id = None \/ msg.buyer_nft_contract_id = None
            \/ msg.buyer_token_id = None THEN PANIC
         ELSE internal_accept_trade(s, nft, Val(msg.buyer_id), tok, owner, approval_id,
                                    Val(msg.buyer_nft_contract_id), Val(msg.buyer_token_id))
    ELSE IF msg.market_type = "accept_trade_marble_series"
    THEN IF msg.buyer_id = None \/ nft \notin s.marble_nft_contracts
            \/ msg.buyer_nft_contract_id = None \/ msg.buyer_token_id = None THEN PANIC
         ELSE internal_accept_trade_series(s, nft, Val(msg.buyer_id), tok, owner,
                                           approval_id, Val(msg.buyer_nft_contract_id),
                                           Val(msg.buyer_token_id))
    ELSE s

\* ------------------------------------------------------------ receipts and the NFT contract
\* A cross-contract call waiting to run on the NFT contract, the callback that
\* receives its result, and an nft_on_approve call on its way to the market.
CallReceipt(p) == [rcpt |-> "call", p |-> p]
CallbackReceipt(p, result) == [rcpt |-> "callback", p |-> p, result |-> result]
ApproveReceipt(tok, owner, approval_id, msg) ==
    [rcpt |-> "nft_on_approve", token_id |-> tok, owner_id |-> owner,
     approval_id |-> approval_id, msg |-> msg]

RECURSIVE CallReceipts(_)
CallReceipts(calls) ==
    IF calls = <<>> THEN <<>> ELSE <<CallReceipt(Head(calls))>> \o CallReceipts(Tail(calls))

\* The transfer a promise asks the NFT contract for: receiver, token and the
\* approval id it presents (lib.rs:595-604, 1146-1155, 1732-1739, 1771-1778,
\* 1793-1800, 1823-1838).
nft_call_of(p) ==
    IF p.kind = "purchase"
    THEN [receiver_id |-> p.buyer_id, token_id |-> p.market_data.token_id,
          approval_id |-> Some(p.market_data.approval_id)]
    ELSE IF p.kind = "offer"
    THEN [receiver_id |-> p.offer_data.buyer_id, token_id |-> p.token_id,
          approval_id |-> Some(p.approval_id)]
    ELSE IF p.kind = "first_trade"
    THEN [receiver_id |-> MARKET, token_id |-> p.buyer_token_id,
          approval_id |-> Some(p.buyer_approval_id)]
    ELSE IF p.kind = "second_trade"
    THEN [receiver_id |-> MARKET, token_id |-> p.seller_token_id,
          approval_id |-> Some(p.seller_approval_id)]
    ELSE IF p.kind = "swap_first"
    THEN [receiver_id |-> p.seller_id, token_id |-> p.buyer_token_id, approval_id |-> None]
    ELSE IF p.kind = "rollback"
    THEN [receiver_id |-> p.buyer_id, token_id |-> p.buyer_token_id, approval_id |-> None]
    ELSE [receiver_id |-> p.buyer_id, token_id |-> p.seller_token_id, approval_id |-> None]

\* The NFT contract lets the market move a token it owns, or one it holds an
\* approval for when the approval id presented, if any, is the current one; the
\* receiver must not be the owner.
nft_transfer_allowed(t) ==
    /\ nftOwner[t.token_id] # t.receiver_id
    /\ \/ nftOwner[t.token_id] = MARKET
       \/ /\ nftApproval[t.token_id] # None
          /\ t.approval_id = None \/ t.approval_id = nftApproval[t.token_id]

\* What nft_transfer_payout may return for a sale at `price` by `seller`: the
\* split is the NFT contract's, in either JSON shape, or bytes that do not parse.
CREATOR == "creator"
Payouts(price, seller) ==
    LET maps == { [a \in {seller} |-> price],
                  [a \in {seller} |-> price - 1],
                  [a \in {seller} |-> price + 1],
                  [a \in {seller} |-> price - PAYOUT_TOLERANCE - 1],
                  [a \in {seller, CREATOR} |-> IF a = seller THEN price - 10 ELSE 10],
                  [a \in {seller, CREATOR} |-> IF a = seller THEN 0 ELSE price],
                  [a \in {CREATOR} |-> price] }
        valid == {m \in maps : \A a \in DOMAIN m : m[a] >= 0}
    IN  {PayoutResult("bare", m) : m \in valid}
        \cup {PayoutResult("wrapped", [a \in {seller} |-> price]),
              PayoutResult("garbage", EmptyMap)}

\* An NFT contract without royalties pays the whole price to the seller.
ExactPayout(price, seller) == {PayoutResult("bare", [a \in {seller} |-> price])}

\* The payouts of an NFT contract with royalties ("any") or without ("exact")
PayoutMenu(menu, price, seller) ==
    IF menu = "exact" THEN ExactPayout(price, seller) ELSE Payouts(price, seller)

\* The results the NFT contract may give to the call of promise p, when its
\* payouts are those of menu
nft_results(p, menu) ==
    IF ~nft_transfer_allowed(nft_call_of(p)) THEN {FailedResult}
    ELSE IF p.kind = "purchase"
    THEN PayoutMenu(menu, p.price, nftOwner[p.market_data.token_id])
    ELSE IF p.kind = "offer" THEN PayoutMenu(menu, p.offer_data.price, nftOwner[p.token_id])
    ELSE {[ok |-> TRUE]}

\* ------------------------------------------------------------ transactions
\* Funds that leave the bid/offer pool in token f with the transfers of `out`
Outflow(out, f) == SumAmounts(SelectSeq(out, LAMBDA x : x.token = f))

\* The listing instances of the purchases among `calls`
RECURSIVE PurchasesOf(_)
PurchasesOf(calls) ==
    IF calls = <<>> THEN {}
    ELSE (IF Head(calls).kind = "purchase"
          THEN {<<Head(calls).market_data.token_id, Head(calls).market_data.g_inst>>}
          ELSE {})
         \cup PurchasesOf(Tail(calls))

\* A user's call of a market method: r is what the handler yields.  A call that
\* panics is no transaction.  `queue` is the receipts left in flight; pool_in and
\* pool_out are what enters and leaves the bid/offer pool besides the transfers.
Transact(op, caller, r, queue, pool_token, pool_in, pool_out) ==
    /\ r # PANIC
    /\ Len(queue) + Len(r.calls) <= MaxPromises
    /\ Commit(r)
    /\ promises' = queue \o CallReceipts(r.calls)
    /\ held' = [f \in FtTokenIds |->
                  held[f] + (IF f = pool_token THEN pool_in - pool_out ELSE 0)
                          - Outflow(r.out, f)]
    /\ issued' = issued \cup PurchasesOf(r.calls)
    /\ last' = [op |-> op, caller |-> caller, out |-> r.out, calls |-> r.calls]
    /\ UNCHANGED <<now, nftvars>>

\* ------------------------------------------------------------ user actions
Tick ==
    /\ now < MaxTime
    /\ now' = now + 1
    /\ last' = [op |-> "tick"]
    /\ UNCHANGED <<cvars, promises, nftvars, held, issued>>

StorageDeposit(caller, account_id, deposit) ==
    /\ storage_deposits[account_id] + deposit <= MaxDeposits * STORAGE_ADD_MARKET_DATA
    /\ Transact("storage_deposit", caller, storage_deposit(State, account_id, deposit),
                promises, NEAR, 0, 0)

\* A user who has not paid for one more entry deposits the price of one.
StorageTopUp(account_id) ==
    /\ ~storage_paid_for_one_more(State, account_id)
    /\ Transact("storage_deposit", account_id,
                storage_deposit(State, account_id, STORAGE_ADD_MARKET_DATA),
                promises, NEAR, 0, 0)

StorageWithdraw(caller, attached) ==
    Transact("storage_withdraw", caller, storage_withdraw(State, caller, attached), promises,
             NEAR, 0, 0)

\* set_transaction_fee with one yoctoNEAR attached
SetTransactionFee(caller, next_fee, start_time) ==
    Transact("set_transaction_fee", caller,
             set_transaction_fee(State, caller, 1, next_fee, start_time), promises, NEAR, 0, 0)

\* A call of one of the owner's methods with one yoctoNEAR attached
AdminCall(caller, call) ==
    Transact(call.method, caller, admin_call(State, caller, 1, call), promises, NEAR, 0, 0)

\* Anyone may call calculate_current_transaction_fee, a method that changes
\* the state (lib.rs:340-350).
CalculateCurrentTransactionFee(caller) ==
    Transact("calculate_current_transaction_fee", caller, apply_pending_fee(State),
             promises, NEAR, 0, 0)

Buy(caller, tok, excess) ==
    \E overflow_checks \in BOOLEAN :
      LET md == lookup_market_data(State, NFT, tok)
          pp == purchase_price(Val(md), overflow_checks)
      IN  /\ md # None
          /\ pp # PANIC
          /\ Transact("buy", caller,
                      buy(State, caller, NFT, tok, None, None, pp.price + excess,
                          overflow_checks),
                      promises, NEAR, 0, 0)

\* ft_transfer_call of `amount` of the token FT to the market, with a message.
\* ft_on_transfer returns 0 unused tokens (token_receiver.rs:54), so the market
\* keeps the amount: a purchase passes it on to the settlement, and after any
\* other method it stays with the market.
FtOnTransfer(sender, amount, msg) ==
    \E overflow_checks \in BOOLEAN :
      Transact("ft_on_transfer", sender,
               ft_on_transfer(State, sender, amount, msg, overflow_checks),
               promises, FT, IF msg.method = "buy" THEN 0 ELSE amount, 0)

\* The amounts handed over for the purchases among `calls`, when nothing was
unpaid(calls) == [i \in DOMAIN calls |-> [calls[i] EXCEPT !.paid = 0]]

\* ft_on_transfer called by an account that is no token contract, naming
\* sender and amount at will: the method reads neither the predecessor nor any
\* balance (token_receiver.rs:27-55), and no token moves.
FtOnTransferDirect(predecessor, sender, amount, msg) ==
    \E overflow_checks \in BOOLEAN :
      LET r == ft_on_transfer(State, sender, amount, msg, overflow_checks)
      IN  /\ r # PANIC
          /\ Transact("ft_on_transfer", predecessor, [r EXCEPT !.calls = unpaid(@)],
                      promises, FT, 0, 0)

AddBid(caller, tok, amount, excess) ==
    \E overflow_checks \in BOOLEAN :
      Transact("add_bid", caller,
               add_bid(State, caller, NFT, NEAR, tok, amount, amount + excess, overflow_checks),
               promises, NEAR, amount + excess, 0)

CancelBid(caller, tok, account_id) ==
    Transact("cancel_bid", caller, cancel_bid(State, caller, NFT, tok, account_id),
             promises, NEAR, 0, 0)

\* The winning bid leaves the pool for the settlement.
AcceptBid(caller, tok) ==
    LET md == market[contract_and_token_id(NFT, tok)]
        r == accept_bid(State, caller, NFT, tok)
    IN  /\ md # None
        /\ Val(md).bids # None
        /\ Val(Val(md).bids) # <<>>
        /\ Transact("accept_bid", caller, r, promises, Val(md).ft_token_id, 0,
                    Val(Val(md).bids)[Len(Val(Val(md).bids))].price)

UpdateMarketData(caller, tok, price, reserve_price) ==
    /\ market[contract_and_token_id(NFT, tok)] # None
    /\ Transact("update_market_data", caller,
                update_market_data(State, caller, NFT, tok,
                    Val(market[contract_and_token_id(NFT, tok)]).ft_token_id,
                    price, reserve_price),
                promises, NEAR, 0, 0)

DeleteMarketData(caller, tok) ==
    Transact("delete_market_data", caller, delete_market_data(State, caller, NFT, tok),
             promises, NEAR, 0, 0)

AddOffer(caller, token_id, series_id, price) ==
    Transact("add_offer", caller,
             add_offer(State, caller, NFT, token_id, series_id, NEAR, price, price),
             promises, NEAR, price, 0)

DeleteOffer(caller, token_id, series_id) ==
    Transact("delete_offer", caller, delete_offer(State, caller, 1, NFT, token_id, series_id),
             promises, NEAR, 0, 0)

DeleteTrade(caller, token_id, series_id, buyer_token_id) ==
    Transact("delete_trade", caller,
             delete_trade(State, caller, NFT, token_id, series_id, NFT, buyer_token_id),
             promises, NEAR, 0, 0)

\* ------------------------------------------------------------ the NFT contract's steps
\* The owner of a token approves the market with a message: the NFT contract
\* records a fresh approval id in place of any earlier one and calls nft_on_approve.
NftApprove(caller, tok, msg) ==
    /\ nftOwner[tok] = caller
    /\ nftNextApproval[tok] <= MaxApprovals
    /\ Len(promises) < MaxPromises
    /\ nftApproval' = [nftApproval EXCEPT ![tok] = Some(nftNextApproval[tok])]
    /\ nftNextApproval' = [nftNextApproval EXCEPT ![tok] = @ + 1]
    /\ promises' = Append(promises, ApproveReceipt(tok, caller, nftNextApproval[tok], msg))
    /\ last' = [op |-> "nft_approve", caller |-> caller]
    /\ UNCHANGED <<cvars, now, nftOwner, held, issued>>

\* The owner of a token takes the market's approval back.
NftRevoke(caller, tok) ==
    /\ nftOwner[tok] = caller
    /\ nftApproval[tok] # None
    /\ nftApproval' = [nftApproval EXCEPT ![tok] = None]
    /\ last' = [op |-> "nft_revoke", caller |-> caller]
    /\ UNCHANGED <<cvars, now, promises, nftOwner, nftNextApproval, held, issued>>

\* The receipts that follow the NFT contract's execution of the call of p
after_nft_call(p, result) ==
    IF p.kind = "swap_first" THEN <<CallReceipt(SwapSecondPromise(p))>>
    ELSE IF p.kind \in {"swap_second", "rollback"} THEN <<>>
    ELSE <<CallbackReceipt(p, result)>>

\* The NFT contract executes the oldest receipt, a transfer the market asked for.
NftExecute(menu) ==
    /\ promises # <<>>
    /\ Head(promises).rcpt = "call"
    /\ LET p == Head(promises).p
           t == nft_call_of(p)
       IN  \E result \in nft_results(p, menu) :
             /\ nftOwner' = IF result.ok THEN [nftOwner EXCEPT ![t.token_id] = t.receiver_id]
                            ELSE nftOwner
             /\ nftApproval' = IF result.ok THEN [nftApproval EXCEPT ![t.token_id] = None]
                               ELSE nftApproval
             /\ promises' = Tail(promises) \o after_nft_call(p, result)
             /\ last' = [op |-> "nft_transfer", p |-> p, result |-> result]
    /\ UNCHANGED <<cvars, now, nftNextApproval, held, issued>>

\* ------------------------------------------------------------ receipts the market executes
\* A receipt executed by the market: r is what the handler yields.  A panic
\* consumes the receipt and changes nothing else.
Receive(op, p, result, r, fee_bps, pool_token, pool_out) ==
    /\ promises' = Tail(promises) \o (IF r = PANIC THEN <<>> ELSE CallReceipts(r.calls))
    /\ IF r = PANIC THEN UNCHANGED cvars ELSE Commit(r)
    /\ held' = IF r = PANIC \/ op # "nft_on_approve" THEN held
               ELSE [f \in FtTokenIds |->
                       held[f] - (IF f = pool_token THEN pool_out ELSE 0) - Outflow(r.out, f)]
    /\ issued' = IF r = PANIC THEN issued ELSE issued \cup PurchasesOf(r.calls)
    /\ last' = [op |-> op, p |-> p, result |-> result, aborted |-> (r = PANIC),
                fee_bps |-> fee_bps,
                out |-> IF r = PANIC THEN <<>> ELSE r.out,
                calls |-> IF r = PANIC THEN <<>> ELSE r.calls]
    /\ UNCHANGED <<now, nftvars>>

\* The price of the offer that nft_on_approve accepts, 0 when it accepts none
accepted_offer_price(r) ==
    IF r = PANIC \/ r.calls = <<>> THEN 0
    ELSE IF Head(r.calls).kind = "offer" THEN Head(r.calls).offer_data.price ELSE 0

NftOnApprove ==
    /\ promises # <<>>
    /\ Head(promises).rcpt = "nft_on_approve"
    /\ LET a == Head(promises)
           r == nft_on_approve(State, NFT, a.token_id, a.owner_id, a.approval_id, a.msg)
       IN  Receive("nft_on_approve", a, None, r, None, NEAR, accepted_offer_price(r))

ResolvePurchase ==
    /\ promises # <<>>
    /\ Head(promises).rcpt = "callback"
    /\ Head(promises).p.kind = "purchase"
    /\ LET p == Head(promises).p
           result == Head(promises).result
       IN  \E overflow_checks \in BOOLEAN :
             Receive("resolve_purchase", p, result,
                     resolve_purchase(State, p.buyer_id, p.market_data, p.price, result,
                                      overflow_checks),
                     Some(calculate_market_data_transaction_fee(State,
                              p.market_data.nft_contract_id, p.market_data.token_id)),
                     NEAR, 0)

ResolveOffer ==
    /\ promises # <<>>
    /\ Head(promises).rcpt = "callback"
    /\ Head(promises).p.kind = "offer"
    /\ LET p == Head(promises).p
           result == Head(promises).result
       IN  \E overflow_checks \in BOOLEAN :
             Receive("resolve_offer", p, result,
                     resolve_offer(State, p.seller_id, p.offer_data, p.token_id, result,
                                   overflow_checks),
                     Some(calculate_current_transaction_fee(State)), NEAR, 0)

\* callback_first_trade, then what its result starts: the second transfer, or
\* callback_second_trade on the failure of callback_first_trade
CallbackFirstTrade ==
    /\ promises # <<>>
    /\ Head(promises).rcpt = "callback"
    /\ Head(promises).p.kind = "first_trade"
    /\ LET p == Head(promises).p
           result == Head(promises).result
           c == callback_first_trade(p, result)
       IN  /\ promises' = Tail(promises)
                \o (IF c = PANIC THEN <<CallbackReceipt(SecondTradePromise(p), FailedResult)>>
                    ELSE <<CallReceipt(c.call)>>)
           /\ last' = [op |-> "callback_first_trade", p |-> p, result |-> result,
                       aborted |-> (c = PANIC)]
    /\ UNCHANGED <<cvars, now, nftvars, held, issued>>

CallbackSecondTrade ==
    /\ promises # <<>>
    /\ Head(promises).rcpt = "callback"
    /\ Head(promises).p.kind = "second_trade"
    /\ LET p == Head(promises).p
           result == Head(promises).result
       IN  Receive("callback_second_trade", p, result,
                   callback_second_trade(State, p, result), None, NEAR, 0)

\* ------------------------------------------------------------ messages users send
SaleMsg(ft_token_id, price) ==
    [MarketArgs("sale") EXCEPT !.ft_token_id = ft_token_id, !.price = Some(price)]

AuctionMsg(ft_token_id, price, ended_at, reserve_price) ==
    [MarketArgs("sale") EXCEPT !.ft_token_id = ft_token_id,
                               !.price = Some(price), !.is_auction = Some(TRUE),
                               !.ended_at = Some(ended_at), !.reserve_price = reserve_price]

DutchMsg(ft_token_id, price, end_price, ended_at) ==
    [MarketArgs("sale") EXCEPT !.ft_token_id = ft_token_id,
                               !.price = Some(price), !.is_auction = Some(TRUE),
                               !.ended_at = Some(ended_at), !.end_price = Some(end_price)]

AcceptOfferMsg(buyer_id, price) ==
    [MarketArgs("accept_offer") EXCEPT !.buyer_id = Some(buyer_id), !.price = Some(price)]

AcceptOfferSeriesMsg(buyer_id, price) ==
    [MarketArgs("accept_offer_marble_series") EXCEPT !.buyer_id = Some(buyer_id),
                                                     !.price = Some(price)]

AddTradeMsg(seller_token_id) ==
    [MarketArgs("add_trade") EXCEPT !.seller_nft_contract_id = Some(NFT),
                                    !.seller_token_id = Some(seller_token_id)]

AcceptTradeMsg(buyer_id, buyer_token_id) ==
    [MarketArgs("accept_trade") EXCEPT !.buyer_id = Some(buyer_id),
                                       !.buyer_nft_contract_id = Some(NFT),
                                       !.buyer_token_id = Some(buyer_token_id)]

TokenInfo(method, ft_token_id, tok) ==
    [nft_contract_id |-> NFT, token_id |-> tok, ft_token_id |-> ft_token_id,
     method |-> method]

\* ------------------------------------------------------------ sales and their settlement
\* Fixed-price listings of one token in both payment tokens, purchases, fee
\* changes, and the settlement receipts.
SalePrice == 200
NextFee == 1000
SettleNext ==
    \/ Tick
    \/ \E a \in {"alice", "bob"} : StorageTopUp(a)
    \/ SetTransactionFee("owner", NextFee, None)
    \/ SetTransactionFee("owner", 0, Some(1))
    \/ \E msg \in {SaleMsg(None, SalePrice), SaleMsg(Some(FT), SalePrice)} :
          NftApprove("alice", "1:1", msg)
    \/ NftApprove("bob", "1:1", SaleMsg(None, SalePrice))
    \/ Buy("bob", "1:1", 0)
    \/ FtOnTransfer("bob", SalePrice, TokenInfo("buy", FT, "1:1"))
    \/ DeleteMarketData("alice", "1:1")
    \/ NftOnApprove
    \/ NftExecute("any")
    \/ ResolvePurchase

SpecSettle == Init /\ [][SettleNext]_vars

\* ------------------------------------------------------------ properties of settlement
\* A payout the market does not accept: bytes that do not parse, amounts above
\* the price, or amounts short of it by more than the tolerance.
BadPayout(result, price) ==
    \/ result.shape = "garbage"
    \/ SumMap(result.map) > price
    \/ price - SumMap(result.map) > PAYOUT_TOLERANCE

\* The last transaction was resolve_purchase on a successful promise with a bad payout.
ResolvedBadPayout ==
    /\ last.op = "resolve_purchase"
    /\ last.result.ok
    /\ BadPayout(last.result, last.p.price)

C2_FailedTransferRefunds ==
    [][(last'.op = "resolve_purchase" /\ ~last'.result.ok) =>
          /\ ~last'.aborted
          /\ last'.out = <<Transfer(last'.p.buyer_id, last'.p.price,
                                    last'.p.market_data.ft_token_id)>>
          /\ market' = market
          /\ old_market' = old_market]_vars

C2_Witness ==
    /\ last.op = "resolve_purchase"
    /\ ~last.result.ok
    /\ last.p.market_data.ft_token_id = FT
    /\ market[contract_and_token_id(NFT, last.p.market_data.token_id)] = None

\* C4 as stated: a settlement resolves with the buyer's payment fully accounted
\* for: resolve_purchase does not abort, and what it sends out (payout and fee,
\* or the refund) adds up to what the buyer paid.
C4_PaymentAccounted ==
    last.op = "resolve_purchase" =>
        /\ ~last.aborted
        /\ SumAmounts(last.out) = last.p.paid

\* C6: the fee resolve_purchase applies to a sale whose NFT transfer succeeded is
\* price * (basis points captured when that listing was created) / 10000,
\* whatever happened in between: fee changes, a pending fee taking effect, other
\* listings of the same token.
C6_FeeIsListingSnapshot ==
    (last.op = "resolve_purchase" /\ last.result.ok /\ last.p.market_data.g_fee # None) =>
        /\ last.fee_bps = last.p.market_data.g_fee
        /\ \A i \in 1..Len(last.out) :
              last.out[i].to = treasury_id =>
                 last.out[i].amount
                   = (last.p.price * Val(last.p.market_data.g_fee)) \div 10000

C6_Witness ==
    /\ last.op = "resolve_purchase"
    /\ last.result.ok
    /\ last.p.market_data.g_fee = Some(500)
    /\ transaction_fee.current_fee = NextFee
    /\ \E i \in 1..Len(last.out) : last.out[i].to = treasury_id /\ last.out[i].amount = 10

\* ------------------------------------------------------------ auctions and racing callers
\* One token listed at a fixed price or as an auction; buyers, bidders, the
\* seller and the contract owner act on the same listing.
OpeningBid == 200
AuctionEnd == 1
AuctionNext ==
    \/ Tick
    \/ StorageTopUp("alice")
    \/ \E msg \in {SaleMsg(None, SalePrice), AuctionMsg(None, OpeningBid, AuctionEnd, None)} :
          NftApprove("alice", "1:1", msg)
    \/ Buy("bob", "1:1", 0)
    \/ AddBid("bob", "1:1", OpeningBid, 0)
    \/ \E amount \in {OpeningBid, min_next_bid(OpeningBid)} : AddBid("carol", "1:1", amount, 0)
    \/ \E a \in {"alice", "carol", "owner"} : AcceptBid(a, "1:1")
    \/ \E a \in {"alice", "owner"} : DeleteMarketData(a, "1:1")
    \/ NftOnApprove
    \/ NftExecute("exact")
    \/ ResolvePurchase

SpecAuction == Init /\ [][AuctionNext]_vars

\* The purchases a transaction started
StartedPurchases(l) ==
    IF l.op \in {"buy", "ft_on_transfer", "accept_bid"}
    THEN SelectSeq(l.calls, LAMBDA c : c.kind = "purchase")
    ELSE <<>>

\* C5: the transaction that starts a settlement removes the listing in that same
\* transaction, so that afterwards buy, delete_market_data and accept_bid on that
\* key are rejected for every caller; and no listing instance has
\* nft_transfer_payout issued for it twice.
C5_SingleSettlement ==
    [][\A i \in 1..Len(StartedPurchases(last')) :
          LET md == StartedPurchases(last')[i].market_data
              k == contract_and_token_id(md.nft_contract_id, md.token_id)
          IN  /\ <<md.token_id, md.g_inst>> \notin issued
              /\ market'[k] = None
              /\ old_market'[k] = None
              /\ \A c \in Accounts :
                    /\ \A oc \in BOOLEAN :
                          buy(State', c, md.nft_contract_id, md.token_id, None, None,
                              md.price, oc) = PANIC
                    /\ delete_market_data(State', c, md.nft_contract_id, md.token_id) = PANIC
                    /\ accept_bid(State', c, md.nft_contract_id, md.token_id) = PANIC]_vars

C5_Witness ==
    /\ last.op = "accept_bid"
    /\ Len(StartedPurchases(last)) = 1
    /\ Cardinality(issued) = 2
    /\ market[contract_and_token_id(NFT, "1:1")] = None

\* ------------------------------------------------------------ trades and the two-NFT swap
\* bob offers his token 2:1 for alice's token 1:1; alice accepts; either may
\* approve again or take the approval back while the swap is in flight.
TradeNext ==
    \/ \E a \in {"alice", "bob"} : StorageTopUp(a)
    \/ NftApprove("bob", "2:1", AddTradeMsg("1:1"))
    \/ NftApprove("alice", "1:1", AcceptTradeMsg("bob", "2:1"))
    \/ NftApprove("alice", "1:1", SaleMsg(None, SalePrice))
    \/ \E a \in {"alice", "bob"}, tok \in Tokens : NftRevoke(a, tok)
    \/ DeleteTrade("bob", Some("1:1"), None, "2:1")
    \/ NftOnApprove
    \/ NftExecute("exact")
    \/ CallbackFirstTrade
    \/ CallbackSecondTrade

SpecTrade == Init /\ [][TradeNext]_vars

\* The swap promise that the last transaction, an nft_on_approve, started
StartedSwaps(l) ==
    IF l.op = "nft_on_approve"
    THEN SelectSeq(l.calls, LAMBDA c : c.kind = "first_trade")
    ELSE <<>>

\* C7 as stated: when step 1 succeeded and step 2 failed, callback_second_trade
\* sends the buyer's token home: after it ran on the failed result, the token is
\* not left with the marketplace unless its transfer back to the buyer is in flight.
C7_RollbackReturnsToken ==
    (last.op = "callback_second_trade" /\ ~last.result.ok
       /\ nftOwner[last.p.buyer_token_id] = MARKET) =>
        \E i \in 1..Len(promises) :
            /\ promises[i].rcpt = "call"
            /\ promises[i].p = RollbackPromise(last.p)

\* C8: accepting a trade removes the trade records of both sides from the trades
\* map, and when both escrow transfers succeeded the swap's last transfer leaves
\* the buyer's token with the seller and the seller's token with the buyer.
C8_SwapCompletes ==
    [][/\ \A i \in 1..Len(StartedSwaps(last')) :
             LET p == StartedSwaps(last')[i]
             IN  /\ trades'[make_triple(p.buyer_nft_contract_id, p.buyer_id,
                                        p.buyer_token_id)] = None
                 /\ trades'[make_triple(p.seller_nft_contract_id, p.seller_id,
                                        p.seller_token_id)] = None
       /\ (last'.op = "nft_transfer" /\ last'.p.kind = "swap_second") =>
             /\ last'.result.ok
             /\ nftOwner'[last'.p.buyer_token_id] = last'.p.seller_id
             /\ nftOwner'[last'.p.seller_token_id] = last'.p.buyer_id]_vars

C8_Witness ==
    /\ last.op = "nft_transfer"
    /\ last.p.kind = "swap_second"
    /\ nftOwner["2:1"] = "alice"
    /\ nftOwner["1:1"] = "bob"
    /\ trades[make_triple(NFT, "bob", "2:1")] = None

\* C9: callback_first_trade issues the transfer of the seller's token only when
\* the transfer of the buyer's token succeeded, so while step 2 is in flight the
\* buyer's token is in escrow; a failed transfer changes no owner, and after a
\* failed step 1 the callbacks issue no transfer at all.
C9_StepTwoOnlyAfterStepOne ==
    [][/\ (last'.op = "callback_first_trade" /\ ~last'.result.ok) =>
             /\ last'.aborted
             /\ promises' = Tail(promises)
                               \o <<CallbackReceipt(SecondTradePromise(last'.p), FailedResult)>>
       /\ (last'.op = "callback_first_trade" /\ ~last'.aborted) => last'.result.ok
       /\ \A i \in 1..Len(promises') :
             (promises'[i].rcpt = "call" /\ promises'[i].p.kind = "second_trade") =>
                 nftOwner'[promises'[i].p.buyer_token_id] = MARKET
       /\ (last'.op = "nft_transfer" /\ ~last'.result.ok) => nftOwner' = nftOwner
       /\ (last'.op = "callback_second_trade" /\ ~last'.result.ok) =>
             /\ promises' = Tail(promises)
             /\ nftOwner' = nftOwner]_vars

C9_Witness ==
    /\ last.op = "callback_second_trade"
    /\ last.aborted
    /\ nftOwner["2:1"] = "bob"
    /\ nftOwner["1:1"] = "alice"

\* ------------------------------------------------------------ bids and offers held in escrow
RECURSIVE SumBidPrices(_)
SumBidPrices(bids) ==
    IF bids = <<>> THEN 0 ELSE Head(bids).price + SumBidPrices(Tail(bids))

\* The bids held on the listing at key k in payment token f
HeldBids(k, f) ==
    IF market[k] = None THEN 0
    ELSE IF Val(market[k]).ft_token_id # f \/ Val(market[k]).bids = None THEN 0
    ELSE SumBidPrices(Val(Val(market[k]).bids))

RECURSIVE SumHeldBids(_, _)
SumHeldBids(S, f) ==
    IF S = {} THEN 0
    ELSE LET k == CHOOSE x \in S : TRUE IN HeldBids(k, f) + SumHeldBids(S \ {k}, f)

RECURSIVE SumEscrowedOffers(_)
SumEscrowedOffers(S) ==
    IF S = {} THEN 0
    ELSE LET k == CHOOSE x \in S : TRUE
         IN (IF offers[k] = None THEN 0 ELSE Val(offers[k]).price)
            + SumEscrowedOffers(S \ {k})

\* What the contract owes in payment token f: the bids it holds and, in NEAR,
\* the offers in escrow
Escrowed(f) ==
    SumHeldBids(Keys2, f) + (IF f = NEAR THEN SumEscrowedOffers(Keys3) ELSE 0)

\* An auction of one token in either payment token, bids in both, an offer, and
\* the seller's changes to the listing; nothing here starts a settlement.
OfferPrice == 50
EscrowNext ==
    \/ Tick
    \/ \E a \in {"alice", "bob"} : StorageDeposit(a, a, STORAGE_ADD_MARKET_DATA)
    \/ \E ft \in {None, Some(FT)} :
          NftApprove("alice", "1:1", AuctionMsg(ft, OpeningBid, AuctionEnd, None))
    \/ \E a \in {"bob", "carol"}, amount \in {OpeningBid, min_next_bid(OpeningBid)},
          e \in 0..MaxExcess :
          /\ held[NEAR] - Escrowed(NEAR) + e <= MaxExcess
          /\ AddBid(a, "1:1", amount, e)
    \/ \E amount \in {OpeningBid, min_next_bid(OpeningBid)} :
          FtOnTransfer("bob", amount, TokenInfo("auction", FT, "1:1"))
    \/ \E a \in {"bob", "carol"} : CancelBid(a, "1:1", a)
    \/ AddOffer("bob", Some("1:1"), None, OfferPrice)
    \/ DeleteOffer("bob", Some("1:1"), None)
    \/ UpdateMarketData("alice", "1:1", OpeningBid + 1, None)
    \/ DeleteMarketData("alice", "1:1")
    \/ NftOnApprove

SpecEscrow == Init /\ [][EscrowNext]_vars

\* C3 as stated: without settlement, the escrowed offers plus the held bids are
\* exactly the funds users attached or transferred for bids and offers, net of
\* the refunds issued, in each payment token.
C3_EscrowConserved == \A f \in FtTokenIds : held[f] = Escrowed(f)

\* ------------------------------------------------------------ the owner index
\* The keys an account owns: its listings, its offers, and its trade intents
OwnedKeys(a) ==
    {contract_and_token_id(NFT, t) : t \in {u \in Tokens :
             /\ lookup_market_data(State, NFT, u) # None
             /\ Val(lookup_market_data(State, NFT, u)).owner_id = a}}
    \cup {k3 \in Keys3 : offers[k3] # None /\ Val(offers[k3]).buyer_id = a}
    \cup UNION {{make_key_owner_by_id_trade(k) :
                    k \in DOMAIN Val(trades[make_triple(NFT, a, t)]).trade_data} :
                t \in {u \in Tokens : trades[make_triple(NFT, a, u)] # None}}

\* C10 as stated: for every account the owner index holds exactly the keys of the
\* listings, offers and trade intents the account owns, and has no entry for an
\* account that owns none.
C10_IndexCoherent ==
    \A a \in Accounts : by_owner_id[a] = store_index_set(OwnedKeys(a))

\* ------------------------------------------------------------ listings and their prices
\* One token listed at a fixed price, as a Dutch auction or as an English
\* auction, in either payment token; the seller changes the price, buyers buy
\* and bid in either payment token.
DutchEndPrice == 100
DutchEnd == 2
ListingMsgs(ft) ==
    {SaleMsg(ft, MAX_PRICE - 1), SaleMsg(ft, MAX_PRICE),
     DutchMsg(ft, SalePrice, DutchEndPrice, DutchEnd),
     AuctionMsg(ft, OpeningBid, AuctionEnd, None)}

ListingNext ==
    \/ Tick
    \/ StorageTopUp("alice")
    \/ \E ft \in {None, Some(FT)} : \E msg \in ListingMsgs(ft) :
          nftNextApproval["1:1"] = 1 /\ NftApprove("alice", "1:1", msg)
    \/ \E price \in {DutchEndPrice - 1, DutchEndPrice, SalePrice, MAX_PRICE - 1} :
          \E reserve_price \in {None, Some(MAX_PRICE)} :
             UpdateMarketData("alice", "1:1", price, reserve_price)
    \/ Buy("bob", "1:1", 0)
    \/ \E amount \in {DutchEndPrice - 1, DutchEndPrice, SalePrice, MAX_PRICE - 1} :
          FtOnTransfer("bob", amount, TokenInfo("buy", FT, "1:1"))
    \/ \E b \in {"bob", "carol"} : \E amount \in {OpeningBid, MAX_PRICE} :
          FtOnTransfer(b, amount, TokenInfo("auction", FT, "1:1"))
    \/ \E b \in {"bob", "carol"} : \E amount \in {OpeningBid, MAX_PRICE} :
          AddBid(b, "1:1", amount, 0)
    \/ NftOnApprove
    \/ NftExecute("exact")
    \/ ResolvePurchase

SpecListing == Init /\ [][ListingNext]_vars

\* The listings of the current map
Listings == {Val(market[k]) : k \in {x \in Keys2 : market[x] # None}}

\* A listing is Dutch when it is an auction with an end price.
Dutch(md) == md.is_auction = Some(TRUE) /\ md.end_price # None

\* C11: every listing has reserve_price >= price, and a Dutch listing has
\* end_price < price and, at every time, a price reported by get_market_data
\* and charged by buy that lies between end_price and price.
C11_ListingPricesOrdered ==
    \A md \in Listings :
       /\ md.reserve_price # None
       /\ Val(md.reserve_price) >= md.price
       /\ Dutch(md) =>
             /\ Val(md.end_price) < md.price
             /\ \A oc \in BOOLEAN :
                   LET v == get_market_data(State, md.nft_contract_id, md.token_id, oc)
                       pp == purchase_price(md, oc)
                   IN  /\ v # PANIC
                       /\ v.price \in Val(md.end_price)..md.price
                       /\ now >= Val(md.started_at) =>
                             /\ pp # PANIC
                             /\ pp.price \in Val(md.end_price)..md.price

\* C12: every stored listing price and every stored bid price is strictly less
\* than MAX_PRICE.
C12_PricesBelowCap ==
    \A md \in Listings :
       /\ md.price < MAX_PRICE
       /\ md.bids # None =>
             \A i \in 1..Len(Val(md.bids)) : Val(md.bids)[i].price < MAX_PRICE

\* ------------------------------------------------------------ English auctions and their bids
\* One token listed as an English auction in either payment token, with or
\* without a reserve price and a later start; three bidders bid, bid again and
\* cancel, and the seller, the bidders and the contract owner accept the top bid.
BidsEnd == 2
Bidders == {"bob", "carol", "owner"}

\* The least amount that outbids a top bid of p: p + floor(p / 100) * 5
NextBid(p) == p + (p \div 100) * 5

BidAmounts == {OpeningBid, NextBid(OpeningBid), NextBid(NextBid(OpeningBid))}

\* The largest amount a transfer of the fungible token can carry, and the
\* least amount that outbids it in arithmetic that wraps around
LargestBid == U128_MODULUS - 1
WrappedBid == NextBid(LargestBid) % U128_MODULUS

EnglishMsgs ==
    {[AuctionMsg(ft, OpeningBid, BidsEnd, reserve_price) EXCEPT !.started_at = started_at] :
        ft \in {None, Some(FT)}, reserve_price \in {None, Some(NextBid(OpeningBid))},
        started_at \in {None, Some(1)}}

BidsNext ==
    \/ Tick
    \/ StorageTopUp("alice")
    \/ \E msg \in EnglishMsgs : nftNextApproval["1:1"] = 1 /\ NftApprove("alice", "1:1", msg)
    \/ \E b \in Bidders : \E amount \in BidAmounts : AddBid(b, "1:1", amount, 0)
    \/ \E b \in Bidders : \E amount \in BidAmounts \cup {LargestBid, WrappedBid} :
          FtOnTransfer(b, amount, TokenInfo("auction", FT, "1:1"))
    \/ \E a \in Bidders : \E c \in {a, "owner"} : CancelBid(c, "1:1", a)
    \/ \E a \in Bidders \cup {"alice"} : AcceptBid(a, "1:1")
    \/ NftOnApprove
    \/ NftExecute("exact")
    \/ ResolvePurchase

SpecBids == Init /\ [][BidsNext]_vars

\* The bids of the listing of token "1:1" in the listing map m
BidsOf(m) ==
    LET md == m[contract_and_token_id(NFT, "1:1")]
    IN  IF md = None THEN <<>> ELSE IF Val(md).bids = None THEN <<>> ELSE Val(Val(md).bids)

\* a is what remains of b after removing some of its elements
RECURSIVE IsSubSeq(_, _)
IsSubSeq(a, b) ==
    IF a = <<>> THEN TRUE
    ELSE IF b = <<>> THEN FALSE
    ELSE IF Head(a) = Head(b) THEN IsSubSeq(Tail(a), Tail(b))
    ELSE IsSubSeq(a, Tail(b))

NonDecreasing(bids) == \A i, j \in 1..Len(bids) : i < j => bids[i].price <= bids[j].price

\* The step is a bid: add_bid, or ft_on_transfer with the method "auction"
BidPlaced(l) == l.op \in {"add_bid", "ft_on_transfer"}

\* C13: through add_bid, bids in the fungible token, cancel_bid and the
\* eviction of the oldest bid, the stored bids stay in their order of arrival
\* with non-decreasing prices, the last one being the highest: a bid is stored
\* as the last element, only with amount >= top.price + floor(top.price/100)*5
\* for the top bid at that time, and every other step only removes bids.
C13_BidsOrdered ==
    [][LET old == BidsOf(market)
           new == BidsOf(market')
       IN  /\ NonDecreasing(new)
           /\ IF BidPlaced(last')
              THEN /\ new # <<>>
                   /\ new[Len(new)].bidder_id = last'.caller
                   /\ IsSubSeq(SubSeq(new, 1, Len(new) - 1), old)
                   /\ old # <<>> => new[Len(new)].price >= NextBid(old[Len(old)].price)
              ELSE IsSubSeq(new, old)]_vars

\* The bids of account a among bids, and the transfers to account a among out
BidsBy(bids, a) == SelectSeq(bids, LAMBDA b : b.bidder_id = a)
TransfersTo(out, a) == SelectSeq(out, LAMBDA t : t.to = a)

\* C14: no listing ever holds two bids by the same bidder: when a bidder who
\* holds a bid x places an accepted bid y > x, through add_bid or through the
\* fungible token, the listing afterwards holds exactly one bid by that
\* bidder, the new one as the last element, and exactly one refund, of x in
\* the listing's payment token, is sent to that bidder.
C14_RebidReplaces ==
    [][LET old == BidsOf(market)
           new == BidsOf(market')
           c == last'.caller
           mine == BidsBy(old, c)
       IN  /\ \A a \in Accounts : Len(BidsBy(new, a)) <= 1
           /\ (BidPlaced(last') /\ mine # <<>> /\ new # <<>>
                  /\ new[Len(new)].price > mine[1].price)
                => /\ BidsBy(new, c) = <<new[Len(new)]>>
                   /\ TransfersTo(last'.out, c)
                        = <<Transfer(c, mine[1].price,
                                     Val(market[contract_and_token_id(NFT, "1:1")]).ft_token_id)>>]_vars

\* bob, outbid by carol, bids again in the fungible token and is refunded his first bid.
C14_Witness ==
    /\ last.op = "ft_on_transfer"
    /\ last.caller = "bob"
    /\ last.out = <<Transfer("bob", OpeningBid, FT)>>
    /\ BidsOf(market) = <<Bid("carol", NextBid(OpeningBid)),
                          Bid("bob", NextBid(NextBid(OpeningBid)))>>

\* The listing of token "1:1" in the listing map m, under its own name
ListingOf(m) == m[contract_and_token_id(NFT, "1:1")]

\* C15: an accepted bid placed when ended_at - now <= FIVE_MINUTES sets ended_at
\* to its previous value plus exactly FIVE_MINUTES, an accepted bid placed when
\* more time remains leaves ended_at unchanged, and no other step on the
\* listing changes ended_at.
C15_ExtensionByFiveMinutes ==
    [][(/\ ListingOf(market) # None
        /\ ListingOf(market') # None
        /\ Val(ListingOf(market)).g_inst = Val(ListingOf(market')).g_inst
        /\ Val(ListingOf(market)).ended_at # None)
       => LET e == Val(Val(ListingOf(market)).ended_at)
              e1 == Val(ListingOf(market')).ended_at
          IN  IF BidPlaced(last')
              THEN e1 = Some(IF e - now <= FIVE_MINUTES THEN e + FIVE_MINUTES ELSE e)
              ELSE e1 = Some(e)]_vars

\* Two bids inside the last five minutes have extended the auction twice.
C15_Witness ==
    /\ BidPlaced(last)
    /\ ListingOf(market) # None
    /\ Val(ListingOf(market)).ended_at = Some(BidsEnd + 2 * FIVE_MINUTES)
    /\ Len(BidsOf(market)) = 2

\* An English auction is an auction without an end price.
English(md) == md.is_auction = Some(TRUE) /\ md.end_price = None

\* A bid of amount by bidder b, paid in full in the listing's payment token,
\* is accepted in the current state.
BidAccepted(b, amount, overflow_checks) ==
    IF Val(ListingOf(market)).ft_token_id = NEAR
    THEN add_bid(State, b, NFT, NEAR, "1:1", amount, amount, overflow_checks) # PANIC
    ELSE ft_on_transfer(State, b, amount,
                        TokenInfo("auction", Val(ListingOf(market)).ft_token_id, "1:1"),
                        overflow_checks) # PANIC

\* The amounts tried on a listing with price p and bids: around the price and
\* around the 5% step above the top bid
ProbeAmounts(p, bids) ==
    {p - 1, p} \cup BidAmounts \cup {WrappedBid}
    \cup (IF bids = <<>> THEN {}
          ELSE {NextBid(bids[Len(bids)].price) - 1, NextBid(bids[Len(bids)].price)})

\* C16: on an English auction a fully paid bid by a bidder other than the
\* seller is accepted if and only if the time is within started_at..ended_at,
\* amount >= price, and the bid list is empty or
\* amount >= top.price + floor(top.price/100)*5.
C16_BidAcceptedIff ==
    (ListingOf(market) # None /\ English(Val(ListingOf(market))))
    => LET md == Val(ListingOf(market))
           bids == Val(md.bids)
       IN  \A b \in Bidders : \A overflow_checks \in BOOLEAN :
             \A amount \in ProbeAmounts(md.price, bids) :
                BidAccepted(b, amount, overflow_checks)
                <=> /\ Val(md.started_at) <= now
                    /\ now <= Val(md.ended_at)
                    /\ amount >= md.price
                    /\ bids = <<>> \/ amount >= NextBid(bids[Len(bids)].price)

C18_AcceptBidRefundsOthers ==
    [][last'.op = "accept_bid"
       => LET bids == BidsOf(market)
              top == bids[Len(bids)]
              md == Val(ListingOf(market))
          IN  /\ last'.out = [i \in 1..(Len(bids) - 1) |->
                                Transfer(bids[i].bidder_id, bids[i].price, md.ft_token_id)]
              /\ \A i \in 1..Len(last'.out) : last'.out[i].to # top.bidder_id
              /\ ListingOf(market') = None
              /\ Len(last'.calls) = 1
              /\ Head(last'.calls).kind = "purchase"
              /\ Head(last'.calls).buyer_id = top.bidder_id
              /\ Head(last'.calls).price = top.price]_vars

\* The seller accepts carol's bid in the fungible token; bob's bid is refunded.
C18_Witness ==
    /\ last.op = "accept_bid"
    /\ last.caller = "alice"
    /\ last.out = <<Transfer("bob", OpeningBid, FT)>>
    /\ Head(last.calls).buyer_id = "carol"
    /\ Head(last.calls).price = NextBid(OpeningBid)
    /\ ListingOf(market) = None

\* The Dutch price at time t: price before started_at, end_price after
\* ended_at, and price - floor((price - end_price) / duration) * (t - started_at)
\* in between
CurvePrice(md, t) ==
    IF t < Val(md.started_at) THEN md.price
    ELSE IF t > Val(md.ended_at) THEN Val(md.end_price)
    ELSE md.price - ((md.price - Val(md.end_price))
                       \div (Val(md.ended_at) - Val(md.started_at)))
                    * (t - Val(md.started_at))

\* What a purchase by buyer c of the listing md, paid in the listing's payment
\* token, yields in the current state
Purchase(md, c, attached, overflow_checks) ==
    IF md.ft_token_id = NEAR
    THEN buy(State, c, md.nft_contract_id, md.token_id, None, None, attached, overflow_checks)
    ELSE ft_on_transfer(State, c, md.price,
                        TokenInfo("buy", md.ft_token_id, md.token_id), overflow_checks)

\* No bid is taken or accepted on the listing md in the current state.
NoBidding(md) ==
    /\ md.bids # None => Val(md.bids) = <<>>
    /\ \A c \in Accounts : \A overflow_checks \in BOOLEAN :
          /\ accept_bid(State, c, md.nft_contract_id, md.token_id) = PANIC
          /\ \A amount \in {md.price, MAX_PRICE} :
                /\ add_bid(State, c, md.nft_contract_id, NEAR, md.token_id, amount, amount,
                           overflow_checks) = PANIC
                /\ ft_on_transfer(State, c, amount,
                                  TokenInfo("auction", md.ft_token_id, md.token_id),
                                  overflow_checks) = PANIC

\* C19: on a Dutch listing add_bid, a bid in the fungible token and accept_bid
\* are rejected for every caller, so the listing never holds a bid, and at or
\* after started_at a purchase paid at the time-curved price is accepted and
\* settles at that price.
C19_DutchBuyNoBids ==
    \A md \in Listings :
       Dutch(md)
       => /\ NoBidding(md)
          /\ now >= Val(md.started_at)
               => \A overflow_checks \in BOOLEAN :
                     LET r == Purchase(md, "bob", CurvePrice(md, now), overflow_checks)
                     IN  /\ r # PANIC
                         /\ Len(r.calls) = 1
                         /\ Head(r.calls).kind = "purchase"
                         /\ Head(r.calls).price = CurvePrice(md, now)

\* C20: buy, with NEAR attached or through ft_on_transfer, is rejected on an
\* English auction for every caller, and a buy starts a settlement only on a
\* listing that is no auction or is a Dutch auction.
C20_NoBuyOnEnglishAuction ==
    [][/\ \A md \in Listings' :
             English(md)
             => \A c \in Accounts : \A overflow_checks \in BOOLEAN :
                   /\ \A attached \in {md.price, MAX_PRICE} :
                         buy(State', c, md.nft_contract_id, md.token_id, None, None,
                             attached, overflow_checks) = PANIC
                   /\ ft_on_transfer(State', c, md.price,
                                     TokenInfo("buy", md.ft_token_id, md.token_id),
                                     overflow_checks) = PANIC
       /\ (last'.op \in {"buy", "ft_on_transfer"} /\ StartedPurchases(last') # <<>>)
             => /\ ListingOf(market) # None
                /\ \/ Val(ListingOf(market)).is_auction \in {None, Some(FALSE)}
                   \/ Dutch(Val(ListingOf(market)))]_vars

\* An English auction that holds bob's bid, on which carol's buy at the price
\* is rejected.
C20_Witness ==
    /\ ListingOf(market) # None
    /\ English(Val(ListingOf(market)))
    /\ BidsOf(market) = <<Bid("bob", OpeningBid)>>
    /\ buy(State, "carol", NFT, "1:1", None, None, OpeningBid, TRUE) = PANIC

\* ------------------------------------------------------------ the listing registry
\* One token listed at a fixed price, as a Dutch auction or as an English
\* auction in either payment token; bidders bid, and the seller, the contract
\* owner and others try to change and to delete the listing.
\* The prices and reserve prices given to update_market_data
RegistryPrices == {OpeningBid - 1, SalePrice + 1, MAX_PRICE - 1, MAX_PRICE}
RegistryReserves == {None, Some(SalePrice), Some(MAX_PRICE)}

RegistryMsgs ==
    {SaleMsg(None, SalePrice), DutchMsg(None, SalePrice, DutchEndPrice, DutchEnd)}
    \cup {AuctionMsg(ft, OpeningBid, BidsEnd, reserve_price) :
             ft \in {None, Some(FT)}, reserve_price \in {None, Some(NextBid(OpeningBid))}}

RegistryNext ==
    \/ Tick
    \/ StorageTopUp("alice")
    \/ \E msg \in RegistryMsgs : nftNextApproval["1:1"] = 1 /\ NftApprove("alice", "1:1", msg)
    \/ \E b \in {"bob", "carol"} : \E amount \in BidAmounts : AddBid(b, "1:1", amount, 0)
    \/ \E b \in {"bob", "carol"} : \E amount \in BidAmounts :
          FtOnTransfer(b, amount, TokenInfo("auction", FT, "1:1"))
    \/ \E c \in Accounts : \E price \in RegistryPrices :
          \E reserve_price \in RegistryReserves :
             UpdateMarketData(c, "1:1", price, reserve_price)
    \/ \E c \in Accounts : DeleteMarketData(c, "1:1")
    \/ NftOnApprove

SpecRegistry == Init /\ [][RegistryNext]_vars

\* The keys of the owner index of account a
IndexOf(idx, a) == IF idx[a] = None THEN {} ELSE Val(idx[a])

\* C21: delete_market_data is rejected for every caller but the listing's
\* seller and the contract owner; when it succeeds on a listing with N bids it
\* sends exactly N refunds, one per bid for that bid's price in the listing's
\* payment token, and afterwards get_market_data fails and the listing's key is
\* not in the seller's owner index.
C21_DeleteMarketData ==
    [][/\ \A c \in Accounts :
             delete_market_data(State, c, NFT, "1:1") # PANIC
             => /\ ListingOf(market) # None
                /\ c \in {Val(ListingOf(market)).owner_id, owner_id}
       /\ last'.op = "delete_market_data"
          => LET md == Val(ListingOf(market))
                 bids == BidsOf(market)
             IN  /\ last'.caller \in {md.owner_id, owner_id}
                 /\ last'.out = [i \in 1..Len(bids) |->
                                   Transfer(bids[i].bidder_id, bids[i].price, md.ft_token_id)]
                 /\ last'.calls = <<>>
                 /\ \A oc \in BOOLEAN : get_market_data(State', NFT, "1:1", oc) = PANIC
                 /\ contract_and_token_id(NFT, "1:1") \in IndexOf(by_owner_id, md.owner_id)
                 /\ contract_and_token_id(NFT, "1:1") \notin IndexOf(by_owner_id', md.owner_id)
      ]_vars

\* The contract owner deletes a listing in the fungible token that holds two
\* bids; both are refunded.
C21_Witness ==
    /\ last.op = "delete_market_data"
    /\ last.caller = "owner"
    /\ last.out = <<Transfer("bob", OpeningBid, FT), Transfer("carol", NextBid(OpeningBid), FT)>>
    /\ ListingOf(market) = None
    /\ by_owner_id["alice"] = None

\* C22: update_market_data is rejected for every caller other than the
\* listing's seller, the contract owner included, for a price >= MAX_PRICE and
\* for a reserve price below the new price; when it succeeds it changes price
\* and reserve_price of the listing and nothing else: not its owner, approval
\* id, payment token, bids, times, end price, nor the fee snapshot or any other
\* part of the contract, and it sends nothing.
C22_UpdateMarketData ==
    [][/\ \A c \in Accounts : \A ft \in FtTokenIds : \A price \in RegistryPrices :
             \A reserve_price \in RegistryReserves :
                update_market_data(State, c, NFT, "1:1", ft, price, reserve_price) # PANIC
                => /\ ListingOf(market) # None
                   /\ c = Val(ListingOf(market)).owner_id
                   /\ price < MAX_PRICE
                   /\ reserve_price # None => Val(reserve_price) >= price
       /\ last'.op = "update_market_data"
          => LET md == Val(ListingOf(market))
                 new == Val(ListingOf(market'))
             IN  /\ ListingOf(market') # None
                 /\ last'.caller = md.owner_id
                 /\ new = [md EXCEPT !.price = new.price, !.reserve_price = new.reserve_price]
                 /\ new.price < MAX_PRICE
                 /\ new.reserve_price # None
                 /\ Val(new.reserve_price) >= new.price
                 /\ market' = [market EXCEPT ![contract_and_token_id(NFT, "1:1")] = Some(new)]
                 /\ market_data_transaction_fee' = market_data_transaction_fee
                 /\ UNCHANGED <<owner_id, treasury_id, transaction_fee, old_market,
                                approved_ft_token_ids, approved_nft_contract_ids,
                                marble_nft_contracts, storage_deposits, by_owner_id,
                                offers, trades>>
                 /\ last'.out = <<>>
                 /\ last'.calls = <<>>
      ]_vars

\* The seller raises the price and the reserve price of an auction in the
\* fungible token that holds bob's bid; the bid stays.
C22_Witness ==
    /\ last.op = "update_market_data"
    /\ last.caller = "alice"
    /\ ListingOf(market) # None
    /\ Val(ListingOf(market)).price = SalePrice + 1
    /\ Val(ListingOf(market)).reserve_price = Some(MAX_PRICE)
    /\ Val(ListingOf(market)).ft_token_id = FT
    /\ BidsOf(market) = <<Bid("bob", OpeningBid)>>
    /\ owner_id # "alice"
    /\ \A price \in RegistryPrices :
          update_market_data(State, owner_id, NFT, "1:1", FT, price, None) = PANIC

\* ------------------------------------------------------------ the storage ledger
\* Two token owners pay for storage and take it back, list their tokens, offer
\* them in trade, make offers, and delete what they created; an approval
\* reaches the market, whether or not the storage for it is paid, before the
\* next one is given.
StorageUsers == {"alice", "bob"}
TokenOf(a) == IF a = "alice" THEN "1:1" ELSE "2:1"
WantedBy(a) == IF a = "alice" THEN "2:1" ELSE "1:1"

StorageNext ==
    \/ \E a \in StorageUsers : StorageTopUp(a)
    \/ \E a \in StorageUsers : \E attached \in 0..2 : StorageWithdraw(a, attached)
    \/ promises = <<>> /\ NftApprove("alice", "1:1", SaleMsg(None, SalePrice))
    \/ \E a \in StorageUsers :
          promises = <<>> /\ NftApprove(a, TokenOf(a), AddTradeMsg(WantedBy(a)))
    \/ AddOffer("bob", Some("1:1"), None, OfferPrice)
    \/ DeleteOffer("bob", Some("1:1"), None)
    \/ DeleteMarketData("alice", "1:1")
    \/ \E a \in StorageUsers : DeleteTrade(a, Some(WantedBy(a)), None, TokenOf(a))
    \/ NftOnApprove

SpecStorage == Init /\ [][StorageNext]_vars

\* The step is an nft_on_approve with market_type sale or add_trade for an
\* owner whose storage balance is below (count(owner) + 1) * STORAGE_ADD_MARKET_DATA.
UnpaidApproval ==
    /\ last'.op = "nft_on_approve"
    /\ last'.p.msg.market_type \in {"sale", "add_trade"}
    /\ storage_deposits[last'.p.owner_id]
          < (Cardinality(IndexOf(by_owner_id, last'.p.owner_id)) + 1) * STORAGE_ADD_MARKET_DATA

WithApprovalId(entry, approval_id) ==
    IF entry = None THEN None ELSE Some([Val(entry) EXCEPT !.approval_id = approval_id])

C24_StorageWithdraw ==
    [][/\ \A a \in Accounts : \A attached \in {0, 2} :
             storage_withdraw(State, a, attached) = PANIC
       /\ last'.op = "storage_withdraw"
          => LET a == last'.caller
                 count == Cardinality(IndexOf(by_owner_id, a))
                 rest == storage_deposits[a] - count * STORAGE_ADD_MARKET_DATA
             IN  /\ rest >= 0
                 /\ last'.out = IF rest > 0 THEN <<Transfer(a, rest, "storage")>> ELSE <<>>
                 /\ storage_deposits' =
                       [storage_deposits EXCEPT ![a] = count * STORAGE_ADD_MARKET_DATA]
                 /\ count = 0 => storage_deposits'[a] = 0
                 /\ by_owner_id' = by_owner_id
                 /\ UNCHANGED <<market, offers, trades, market_data_transaction_fee>>
      ]_vars

\* alice, who has one listing and paid for two entries, takes back the price of
\* one entry and keeps a balance of one.
C24_Witness ==
    /\ last.op = "storage_withdraw"
    /\ last.caller = "alice"
    /\ last.out = <<Transfer("alice", STORAGE_ADD_MARKET_DATA, "storage")>>
    /\ by_owner_id["alice"] = Some({contract_and_token_id(NFT, "1:1")})
    /\ storage_deposits["alice"] = STORAGE_ADD_MARKET_DATA

\* ------------------------------------------------------------ the fee schedule
\* The contract owner changes the fee at once and from a start time on; time
\* passes; anyone asks for the current fee, and a listing is created, which
\* asks for it too.
ScheduledFee == NextFee + 1
FeeInputs == {0, NextFee, ScheduledFee, 9999, 10000}
StartTimes == {None, Some(0), Some(1), Some(2)}

FeeNext ==
    \/ Tick
    \/ SetTransactionFee("owner", NextFee, None)
    \/ \E start_time \in StartTimes : SetTransactionFee("owner", ScheduledFee, start_time)
    \/ \E c \in {"alice", "owner"} : CalculateCurrentTransactionFee(c)
    \/ StorageTopUp("alice")
    \/ nftNextApproval["1:1"] = 1 /\ NftApprove("alice", "1:1", SaleMsg(None, SalePrice))
    \/ NftOnApprove

SpecFee == Init /\ [][FeeNext]_vars

\* A fee schedule
Schedule(current_fee, next_fee, start_time) ==
    [next_fee |-> next_fee, start_time |-> start_time, current_fee |-> current_fee]

\* C25: set_transaction_fee with a start time is rejected unless the start
\* time is later than now in seconds, and otherwise leaves current_fee as it is
\* and stores (next_fee, start_time) as the one pending change; with no start
\* time it sets current_fee at once and clears the pending change.
\* calculate_current_transaction_fee returns the old current_fee and changes
\* nothing while now in seconds is before the start time, and from then on
\* returns next_fee, makes it the current fee and clears the pending change.
C25_FeeSchedule ==
    [][/\ \A fee \in FeeInputs : \A start_time \in StartTimes :
             LET r == set_transaction_fee(State, owner_id, 1, fee, start_time)
             IN  IF fee >= 10000 THEN r = PANIC
                 ELSE IF start_time = None
                 THEN r # PANIC /\ r.transaction_fee = Schedule(fee, None, None)
                 ELSE IF Val(start_time) > to_sec(now)
                 THEN /\ r # PANIC
                      /\ r.transaction_fee
                            = Schedule(transaction_fee.current_fee, Some(fee), start_time)
                 ELSE r = PANIC
       /\ LET fee == calculate_current_transaction_fee(State)
              after == apply_pending_fee(State).transaction_fee
          IN  IF transaction_fee.next_fee = None
                 \/ to_sec(now) < Val(transaction_fee.start_time)
              THEN fee = transaction_fee.current_fee /\ after = transaction_fee
              ELSE /\ fee = Val(transaction_fee.next_fee)
                   /\ after = Schedule(Val(transaction_fee.next_fee), None, None)
       /\ last'.op = "set_transaction_fee"
          => \E fee \in FeeInputs : \E start_time \in StartTimes :
                transaction_fee'
                   = IF start_time = None THEN Schedule(fee, None, None)
                     ELSE Schedule(transaction_fee.current_fee, Some(fee), start_time)
       /\ last'.op = "calculate_current_transaction_fee"
          => /\ transaction_fee' = apply_pending_fee(State).transaction_fee
             /\ transaction_fee'.next_fee # None
                   => to_sec(now) < Val(transaction_fee'.start_time)
       /\ (transaction_fee.next_fee = None) <=> (transaction_fee.start_time = None)
      ]_vars

\* A fee scheduled for second 1 has become the current fee with the first
\* call of calculate_current_transaction_fee after that time.
C25_Witness ==
    /\ last.op = "calculate_current_transaction_fee"
    /\ last.caller = "alice"
    /\ to_sec(now) >= 1
    /\ transaction_fee = Schedule(ScheduledFee, None, None)

\* ------------------------------------------------------------ the owner's methods
\* The contract owner, the account the ownership goes to, and a third account
\* call the owner's methods: the treasury, the ownership, the fee and the
\* approved sets change.
AdminCallOf(method, arg) == [method |-> method, arg |-> arg]

AdminCalls ==
    {AdminCallOf("set_treasury", a) : a \in {"treasury", "carol"}}
    \cup {AdminCallOf("transfer_ownership", a) : a \in {"owner", "alice"}}
    \cup {AdminCallOf("add_approved_nft_contract_ids", {"nft2"}),
          AdminCallOf("remove_approved_nft_contract_ids", {NFT}),
          AdminCallOf("add_approved_marble_nft_contract_ids", {"nft2"}),
          AdminCallOf("add_approved_ft_token_ids", {"ft2"})}

AdminMethods == {call.method : call \in AdminCalls} \cup {"set_transaction_fee"}

AdminNext ==
    \/ Tick
    \/ \E c \in {"owner", "alice", "bob"} : \E call \in AdminCalls : AdminCall(c, call)
    \/ \E c \in {"owner", "alice", "bob"} : SetTransactionFee(c, NextFee, None)
    \/ \E c \in {"owner", "alice", "bob"} : SetTransactionFee(c, ScheduledFee, Some(1))
    \/ \E c \in {"owner", "bob"} : CalculateCurrentTransactionFee(c)

SpecAdmin == Init /\ [][AdminNext]_vars

\* What the owner's methods govern, the fee schedule apart
Governed == <<owner_id, treasury_id, approved_ft_token_ids,
              approved_nft_contract_ids, marble_nft_contracts>>

\* What a call of an owner's method is to do to the contract
AdminEffect(s, call) ==
    IF call.method = "set_treasury" THEN [s EXCEPT !.treasury_id = call.arg]
    ELSE IF call.method = "transfer_ownership" THEN [s EXCEPT !.owner_id = call.arg]
    ELSE IF call.method = "add_approved_nft_contract_ids"
    THEN [s EXCEPT !.approved_nft_contract_ids = @ \cup call.arg]
    ELSE IF call.method = "remove_approved_nft_contract_ids"
    THEN [s EXCEPT !.approved_nft_contract_ids = @ \ call.arg]
    ELSE IF call.method = "add_approved_marble_nft_contract_ids"
    THEN [s EXCEPT !.marble_nft_contracts = @ \cup call.arg]
    ELSE [s EXCEPT !.approved_ft_token_ids = @ \cup call.arg]

\* C26: set_treasury, transfer_ownership, set_transaction_fee and the methods
\* that add to and remove from the approved sets are rejected for every caller
\* but the current contract owner and for every deposit but 1 unit, and take
\* effect for the owner with 1 unit; owner, treasury and approved sets change
\* only in a call of these methods by the current owner, and the fee schedule
\* changes only there or when the fee the owner scheduled comes into force;
\* after transfer_ownership to another account the previous owner is rejected
\* and the new owner is accepted.
C26_OwnerOnly ==
    [][/\ \A c \in Accounts : \A attached \in 0..2 :
             IF c = owner_id /\ attached = 1
             THEN /\ \A call \in AdminCalls :
                        admin_call(State, c, attached, call) = AdminEffect(State, call)
                  /\ set_transaction_fee(State, c, attached, NextFee, None) # PANIC
             ELSE /\ \A call \in AdminCalls : admin_call(State, c, attached, call) = PANIC
                  /\ \A start_time \in StartTimes :
                        set_transaction_fee(State, c, attached, NextFee, start_time) = PANIC
       /\ Governed' # Governed
             => last'.op \in AdminMethods /\ last'.caller = owner_id
       /\ transaction_fee' # transaction_fee
             => \/ last'.op = "set_transaction_fee" /\ last'.caller = owner_id
                \/ /\ last'.op = "calculate_current_transaction_fee"
                   /\ transaction_fee.next_fee # None
                   /\ transaction_fee' = [next_fee |-> None, start_time |-> None,
                                          current_fee |-> Val(transaction_fee.next_fee)]
       /\ last'.op \in AdminMethods => last'.caller = owner_id
       /\ (last'.op = "transfer_ownership" /\ owner_id' # owner_id)
             => \A call \in AdminCalls :
                   /\ admin_call(State', owner_id, 1, call) = PANIC
                   /\ admin_call(State', owner_id', 1, call) # PANIC
                   /\ set_transaction_fee(State', owner_id, 1, NextFee, None) = PANIC
                   /\ set_transaction_fee(State', owner_id', 1, NextFee, None) # PANIC
      ]_vars

\* alice, to whom the ownership was transferred, has set the treasury; the
\* previous owner is rejected.
C26_Witness ==
    /\ last.op = "set_treasury"
    /\ last.caller = "alice"
    /\ owner_id = "alice"
    /\ treasury_id = "carol"
    /\ set_treasury(State, "owner", 1, "treasury") = PANIC

\* ------------------------------------------------------------ offers and their acceptance
\* bob's offers on a token and on its series, at two prices; alice's auction of
\* the token with carol's bid; alice accepts an offer, and the NFT transfer
\* succeeds or fails.
OfferPrices == {OfferPrice, OfferPrice + 1}
OfferTargets == {<<Some("1:1"), None>>, <<None, Some("1")>>}

OffersNext ==
    \/ \E a \in {"alice", "bob"} : StorageTopUp(a)
    \/ \E t \in OfferTargets, price \in OfferPrices : AddOffer("bob", t[1], t[2], price)
    \/ \E t \in OfferTargets : DeleteOffer("bob", t[1], t[2])
    \/ /\ nftNextApproval["1:1"] = 1
       /\ NftApprove("alice", "1:1", AuctionMsg(None, OpeningBid, BidsEnd, None))
    \/ AddBid("carol", "1:1", OpeningBid, 0)
    \/ \E price \in OfferPrices :
          promises = <<>> /\ NftApprove("alice", "1:1", AcceptOfferMsg("bob", price))
    \/ promises = <<>> /\ NftApprove("alice", "1:1", AcceptOfferSeriesMsg("bob", OfferPrice))
    \/ NftRevoke("alice", "1:1")
    \/ NftOnApprove
    \/ NftExecute("exact")
    \/ ResolveOffer

SpecOffers == Init /\ [][OffersNext]_vars

\* NEAR that the transfers of `out` pay to account a
Received(out, a) == SumAmounts(SelectSeq(out, LAMBDA x : x.to = a /\ x.token = NEAR))

\* The state after add_offer of price on target t by buyer, with price attached
AfterAddOffer(buyer, t, price) == add_offer(State, buyer, NFT, t[1], t[2], NEAR, price, price)

\* The state after delete_offer, with 1 unit attached, by the same buyer on the
\* same target
AfterAddThenDelete(buyer, t, price) ==
    delete_offer(AfterAddOffer(buyer, t, price), buyer, 1, NFT, t[1], t[2])

\* The price of the offer of buyer on target t, 0 when there is none
EscrowedFor(buyer, t) ==
    LET k3 == make_triple(NFT, buyer, token_or_series(t[1], t[2]))
    IN  IF offers[k3] = None THEN 0 ELSE Val(offers[k3]).price

\* C27 as stated: add_offer followed by delete_offer by the same buyer on the
\* same target refunds exactly the escrowed price to the buyer, removes the
\* offer (get_offer fails) and its key from the buyer's index, and returns the
\* offers map, the owner index and the buyer's balance (what the buyer received
\* equals what the buyer attached to the two calls) to their values before
\* add_offer.
C27_RoundTrip ==
    \A buyer \in Users, t \in OfferTargets, price \in OfferPrices :
       AfterAddOffer(buyer, t, price) # PANIC
       => LET s2 == AfterAddThenDelete(buyer, t, price)
              k3 == make_triple(NFT, buyer, token_or_series(t[1], t[2]))
          IN  /\ s2 # PANIC
              /\ s2.out[Len(s2.out)] = Transfer(buyer, price, NEAR)
              /\ get_offer(s2, NFT, buyer, t[1], t[2]) = PANIC
              /\ s2.by_owner_id[buyer] # None => k3 \notin Val(s2.by_owner_id[buyer])
              /\ s2.offers = offers
              /\ s2.by_owner_id = by_owner_id
              /\ Received(s2.out, buyer) = price + 1

\* C27: add_offer followed by delete_offer (1 unit attached) by the same buyer on
\* the same target refunds exactly the escrowed price to the buyer, removes the
\* offer (get_offer fails) and its key from the buyer's index; the offers map
\* and the owner index are those before add_offer without the buyer's offer on
\* the target, so equal to them when the buyer had no such offer; the buyer
\* receives the price back and the price of the offer that add_offer replaced,
\* so that the balance is the one before add_offer less the 1 unit attached to
\* delete_offer when no offer was replaced.
C27_RoundTripNet ==
    \A buyer \in Users, t \in OfferTargets, price \in OfferPrices :
       AfterAddOffer(buyer, t, price) # PANIC
       => LET s2 == AfterAddThenDelete(buyer, t, price)
              k3 == make_triple(NFT, buyer, token_or_series(t[1], t[2]))
              index == IF by_owner_id[buyer] = None THEN {} ELSE Val(by_owner_id[buyer])
          IN  /\ s2 # PANIC
              /\ s2.out[Len(s2.out)] = Transfer(buyer, price, NEAR)
              /\ get_offer(s2, NFT, buyer, t[1], t[2]) = PANIC
              /\ s2.offers = [offers EXCEPT ![k3] = None]
              /\ s2.by_owner_id = [by_owner_id EXCEPT ![buyer] = store_index_set(index \ {k3})]
              /\ offers[k3] = None => s2.offers = offers /\ s2.by_owner_id = by_owner_id
              /\ Received(s2.out, buyer) = price + EscrowedFor(buyer, t)
              /\ \A a \in Accounts \ {buyer} : Received(s2.out, a) = 0
              /\ [s2 EXCEPT !.out = <<>>, !.offers = offers, !.by_owner_id = by_owner_id] = State
              /\ \A d \in {0, 2} :
                    delete_offer(AfterAddOffer(buyer, t, price), buyer, d, NFT, t[1], t[2]) = PANIC

\* bob has made an offer on token 1:1 and withdrawn it: the price came back and
\* nothing of the offer is left.
C27_Witness ==
    /\ last.op = "delete_offer"
    /\ last.caller = "bob"
    /\ last.out = <<Transfer("bob", OfferPrice + 1, NEAR)>>
    /\ get_offer(State, NFT, "bob", Some("1:1"), None) = PANIC
    /\ by_owner_id["bob"] = None
    /\ held[NEAR] = 0

\* The entries the storage balance of a buyer must cover for an offer on the key
\* k3: those of the index without the offer that is replaced, and one more
EntriesWith(buyer, k3) ==
    LET index == IF by_owner_id[buyer] = None THEN {} ELSE Val(by_owner_id[buyer])
    IN  Cardinality(index \ (IF offers[k3] = None THEN {} ELSE {k3})) + 1

\* C28: add_offer is accepted only with the attached deposit equal to the price,
\* the native payment token and a storage balance of the buyer that covers
\* (count + 1) entries, counted after the removal of the offer it replaces (a
\* series offer only for a marble NFT contract), and is accepted whenever these
\* hold; it removes the buyer's earlier offer on the target, refunds exactly its
\* price, stores the new offer under the one key of (contract, buyer, target)
\* and indexes it; the offers and bids stored are exactly the funds held.
C28_AddOffer ==
    /\ \A buyer \in Users, t \in OfferTargets, ft \in FtTokenIds, price \in OfferPrices :
         \A attached \in {price - 1, price, price + 1} :
            LET r == add_offer(State, buyer, NFT, t[1], t[2], ft, price, attached)
                k3 == make_triple(NFT, buyer, token_or_series(t[1], t[2]))
                index == IF by_owner_id[buyer] = None THEN {} ELSE Val(by_owner_id[buyer])
            IN  /\ r # PANIC
                   <=> /\ attached = price
                       /\ ft = NEAR
                       /\ storage_deposits[buyer]
                             >= EntriesWith(buyer, k3) * STORAGE_ADD_MARKET_DATA
                       /\ t[1] = None => NFT \in marble_nft_contracts
                /\ r # PANIC
                   => /\ r.offers = [offers EXCEPT ![k3] =
                                        Some(OfferData(buyer, NFT, t[1], t[2], NEAR, price))]
                      /\ r.by_owner_id = [by_owner_id EXCEPT ![buyer] = Some(index \cup {k3})]
                      /\ r.out = IF offers[k3] = None THEN <<>>
                                 ELSE <<Transfer(buyer, Val(offers[k3]).price, NEAR)>>
                      /\ r.calls = <<>>
                      /\ [r EXCEPT !.out = <<>>, !.offers = offers,
                                   !.by_owner_id = by_owner_id] = State
    /\ \A k3 \in Keys3 : offers[k3] # None
          => /\ make_triple(NFT, Val(offers[k3]).buyer_id,
                            token_or_series(Val(offers[k3]).token_id,
                                            Val(offers[k3]).token_series_id)) = k3
             /\ Val(offers[k3]).ft_token_id = NEAR
    /\ held[NEAR] = Escrowed(NEAR)

\* bob, who paid storage for one entry, has replaced his offer on token 1:1 by
\* a higher one: the earlier price was refunded and the higher one is held.
C28_Witness ==
    /\ last.op = "add_offer"
    /\ last.caller = "bob"
    /\ last.out = <<Transfer("bob", OfferPrice, NEAR)>>
    /\ storage_deposits["bob"] = STORAGE_ADD_MARKET_DATA
    /\ get_offer(State, NFT, "bob", Some("1:1"), None)
          = OfferData("bob", NFT, Some("1:1"), None, NEAR, OfferPrice + 1)
    /\ held[NEAR] = OfferPrice + 1

AcceptTypes == {"accept_offer", "accept_offer_marble_series"}

\* C29: nft_on_approve with accept_offer or accept_offer_marble_series aborts
\* unless the buyer's offer on the token (on its series) is stored with the
\* price of the message; otherwise it deletes the token's listing and refunds
\* each of its bids, removes the offer and its index entry, and asks the NFT
\* contract to transfer the token to offer.buyer for offer.price, with
\* resolve_offer to follow; when that transfer fails, resolve_offer sends
\* exactly offer.price to offer.buyer and changes nothing.
C29_AcceptOffer ==
    [][/\ (last'.op = "nft_on_approve" /\ last'.p.msg.market_type \in AcceptTypes)
          => LET a == last'.p
                 buyer == Val(a.msg.buyer_id)
                 series == a.msg.market_type = "accept_offer_marble_series"
                 target == IF series THEN token_series_id(a.token_id) ELSE a.token_id
                 k3 == make_triple(NFT, buyer, target)
                 k == contract_and_token_id(NFT, a.token_id)
                 named == IF series THEN Val(offers[k3]).token_series_id
                          ELSE Val(offers[k3]).token_id
             IN  /\ last'.aborted
                    <=> \/ offers[k3] = None
                        \/ named # Some(target)
                        \/ Val(offers[k3]).price # Val(a.msg.price)
                 /\ last'.aborted => UNCHANGED cvars
                 /\ ~last'.aborted
                    => /\ market'[k] = None
                       /\ market[k] # None
                          => k \notin IndexOf(by_owner_id', Val(market[k]).owner_id)
                       /\ last'.out = IF market[k] = None \/ Val(market[k]).bids = None
                                      THEN <<>>
                                      ELSE [i \in 1..Len(Val(Val(market[k]).bids)) |->
                                              Transfer(Val(Val(market[k]).bids)[i].bidder_id,
                                                       Val(Val(market[k]).bids)[i].price,
                                                       Val(market[k]).ft_token_id)]
                       /\ offers' = [offers EXCEPT ![k3] = None]
                       /\ k3 \in IndexOf(by_owner_id, buyer)
                       /\ k3 \notin IndexOf(by_owner_id', buyer)
                       /\ last'.calls = <<OfferPromise(a.owner_id, Val(offers[k3]), a.token_id,
                                                       a.approval_id)>>
                       /\ nft_call_of(last'.calls[1])
                             = [receiver_id |-> Val(offers[k3]).buyer_id,
                                token_id |-> a.token_id, approval_id |-> Some(a.approval_id)]
                       /\ last'.calls[1].offer_data.price = Val(offers[k3]).price
                       /\ held'[NEAR] = held[NEAR] - Val(offers[k3]).price
                                        - SumAmounts(last'.out)
       /\ (last'.op = "resolve_offer" /\ ~last'.result.ok)
          => /\ ~last'.aborted
             /\ last'.out = <<Transfer(last'.p.offer_data.buyer_id, last'.p.offer_data.price,
                                       NEAR)>>
             /\ last'.calls = <<>>
             /\ UNCHANGED cvars
      ]_vars

\* alice, whose auction of token 1:1 holds carol's bid, has accepted bob's offer:
\* the listing is gone, the bid is refunded and the transfer to bob is requested.
C29_Witness ==
    /\ last.op = "nft_on_approve"
    /\ ~last.aborted
    /\ last.out = <<Transfer("carol", OpeningBid, NEAR)>>
    /\ last.calls = <<OfferPromise("alice", OfferData("bob", NFT, Some("1:1"), None, NEAR,
                                                     OfferPrice + 1), "1:1", 2)>>
    /\ ListingOf(market) = None
    /\ by_owner_id["alice"] = None
    /\ by_owner_id["bob"] = None

\* ------------------------------------------------------------ unknown tags
\* A listing in the fungible token, bids and a purchase through ft_on_transfer,
\* and calls whose method or market_type is none of those the market knows.
UnknownMethods == {"offer", "bid"}
UnknownMarketTypes == {"auction", "buy"}

DispatchNext ==
    \/ Tick
    \/ StorageTopUp("alice")
    \/ \E msg \in {SaleMsg(Some(FT), SalePrice),
                   AuctionMsg(Some(FT), OpeningBid, BidsEnd, None)} :
          nftNextApproval["1:1"] = 1 /\ NftApprove("alice", "1:1", msg)
    \/ \E market_type \in UnknownMarketTypes :
          promises = <<>> /\ NftApprove("alice", "1:1", MarketArgs(market_type))
    \/ \E method \in {"auction", "buy"}, amount \in {OpeningBid, NextBid(OpeningBid)} :
          FtOnTransfer("bob", amount, TokenInfo(method, FT, "1:1"))
    \/ \E method \in UnknownMethods, amount \in {OpeningBid, NextBid(OpeningBid)} :
          /\ held[FT] = Escrowed(FT)
          /\ FtOnTransfer("bob", amount, TokenInfo(method, FT, "1:1"))
    \/ NftOnApprove
    \/ NftExecute("exact")
    \/ ResolvePurchase

SpecDispatch == Init /\ [][DispatchNext]_vars

\* C30 as stated: ft_on_transfer with a method other than "auction" and "buy",
\* and nft_on_approve with a market_type outside the six known ones, abort, so
\* that the market holds no tokens but those of the bids it records.
C30_UnknownTagsRejected ==
    /\ \A sender \in Users, amount \in BidAmounts, method \in UnknownMethods :
          \A overflow_checks \in BOOLEAN :
             ft_on_transfer(State, sender, amount, TokenInfo(method, FT, "1:1"),
                            overflow_checks) = PANIC
    /\ \A owner \in Users, tok \in Tokens, market_type \in UnknownMarketTypes :
          nft_on_approve(State, NFT, tok, owner, 1, MarketArgs(market_type)) = PANIC
    /\ held[FT] = Escrowed(FT)

\* ------------------------------------------------------------ the amount of ft_on_transfer
\* The last bid of the listing of token 1:1
TopBid(m) == BidsOf(m)[Len(BidsOf(m))]

\* An ft_on_transfer step that placed a bid: the whole amount is the price of
\* the bid stored last, held for the sender.
FtBidUsesAmount ==
    /\ ListingOf(market') # None
    /\ Val(ListingOf(market')).bids # None
    /\ BidsOf(market') # <<>>
    /\ TopBid(market').bidder_id = last'.caller
    /\ TopBid(market').price = held'[FT] - held[FT] + Outflow(last'.out, FT)

\* An ft_on_transfer step that bought: the settlement price is the amount.
FtBuyUsesAmount ==
    /\ Len(last'.calls) = 1
    /\ last'.calls[1].kind = "purchase"
    /\ last'.calls[1].buyer_id = last'.caller
    /\ last'.calls[1].price = last'.calls[1].paid

\* C31 as stated: every ft_on_transfer call that does not abort uses the whole
\* transferred amount: for method "auction" a bid with price equal to the
\* amount is stored, and for method "buy" the settlement price equals the
\* amount, on Dutch listings too.
C31_FtAmountUsed ==
    [][last'.op = "ft_on_transfer"
         => IF last'.calls = <<>> THEN FtBidUsesAmount ELSE FtBuyUsesAmount]_vars

\* ------------------------------------------------------------ the payout of a purchase
\* The transfers of `out` to account a
PaidTo(out, a) == SelectSeq(out, LAMBDA x : x.to = a)

\* resolve_purchase ran on a successful NFT transfer whose payout it accepts
ResolvedValidPayout ==
    /\ last.op = "resolve_purchase"
    /\ last.result.ok
    /\ payout_option(last.result, last.p.price) # None

\* C32 as stated: on a successful transfer with a valid payout, resolve_purchase
\* pays every receiver other than the seller its payout amount, the seller its
\* amount less the fee, and the treasury the fee floor(price * bps / 10000), once;
\* for every valid payout, and never more than the price in total.
C32_PayoutPaid ==
    ResolvedValidPayout
    => LET payout == Val(payout_option(last.result, last.p.price))
           seller == last.p.market_data.owner_id
           fee == (last.p.price * Val(last.fee_bps)) \div 10000
       IN  /\ ~last.aborted
           /\ \A a \in DOMAIN payout \ {seller} :
                 PaidTo(last.out, a) = <<Transfer(a, payout[a], last.p.market_data.ft_token_id)>>
           /\ seller \in DOMAIN payout
                 => PaidTo(last.out, seller)
                      = <<Transfer(seller, payout[seller] - fee, last.p.market_data.ft_token_id)>>
           /\ SumAmounts(PaidTo(last.out, treasury_id)) = fee
           /\ Len(PaidTo(last.out, treasury_id)) <= 1
           /\ SumAmounts(last.out) <= last.p.price

\* ------------------------------------------------------------ who calls ft_on_transfer
\* A listing in the fungible token, at a fixed price or as an auction; bob pays
\* through the token contract, carol calls ft_on_transfer herself.
ForgedNext ==
    \/ Tick
    \/ StorageTopUp("alice")
    \/ \E msg \in {SaleMsg(Some(FT), SalePrice),
                   AuctionMsg(Some(FT), OpeningBid, BidsEnd, None)} :
          nftNextApproval["1:1"] = 1 /\ NftApprove("alice", "1:1", msg)
    \/ \E method \in {"auction", "buy"}, amount \in BidAmounts :
          FtOnTransfer("bob", amount, TokenInfo(method, FT, "1:1"))
    \/ \E method \in {"auction", "buy"}, amount \in {SalePrice, NextBid(OpeningBid)} :
          /\ held[FT] = Escrowed(FT)
          /\ FtOnTransferDirect("carol", "carol", amount, TokenInfo(method, FT, "1:1"))
    \/ \E a \in {"bob", "carol"} : CancelBid(a, "1:1", a)
    \/ NftOnApprove
    \/ NftExecute("exact")
    \/ ResolvePurchase

SpecForged == Init /\ [][ForgedNext]_vars

\* C33 as stated: the bids recorded through ft_on_transfer are backed by tokens
\* the market received, and a purchase through ft_on_transfer starts only with
\* its price handed over: only the token contract of the listing gets a bid or
\* a purchase recorded.
C33_FtBidsBacked ==
    [][/\ held'[FT] >= Escrowed(FT)'
       /\ last'.op = "ft_on_transfer"
          => /\ last'.caller \notin Users \ {"bob"}
             /\ \A i \in DOMAIN last'.calls : last'.calls[i].paid >= last'.calls[i].price
      ]_vars

\* ------------------------------------------------------------ legacy listings
\* A MarketDataV1 of the legacy map (lib.rs:98-106)
MarketDataV1(owner, approval_id, tok, ft_token_id, price) ==
    [owner_id |-> owner, approval_id |-> approval_id, nft_contract_id |-> NFT,
     token_id |-> tok, ft_token_id |-> ft_token_id, price |-> price]

\* The contract after migrate() (lib.rs:262-285) from a version that held
\* alice's listing of token 1:1, created with approval 1 and paid storage for:
\* the legacy map keeps it, the current map is empty.
InitMigrated ==
    /\ owner_id = "owner"
    /\ treasury_id = "treasury"
    /\ transaction_fee = [next_fee |-> None, start_time |-> None, current_fee |-> 500]
    /\ old_market = [k \in Keys2 |->
                        IF k = contract_and_token_id(NFT, "1:1")
                        THEN Some(MarketDataV1("alice", 1, "1:1", NEAR, SalePrice))
                        ELSE None]
    /\ market = [k \in Keys2 |-> None]
    /\ approved_ft_token_ids = {NEAR, FT}
    /\ approved_nft_contract_ids = {NFT}
    /\ marble_nft_contracts = {NFT}
    /\ storage_deposits = [a \in Accounts |->
                              IF a = "alice" THEN STORAGE_ADD_MARKET_DATA ELSE 0]
    /\ by_owner_id = [a \in Accounts |->
                         IF a = "alice" THEN Some({contract_and_token_id(NFT, "1:1")})
                         ELSE None]
    /\ offers = [k \in Keys3 |-> None]
    /\ trades = [k \in Keys3 |-> None]
    /\ market_data_transaction_fee = [k \in Keys2 |-> None]
    /\ now = 0
    /\ promises = <<>>
    /\ nftOwner = [t \in Tokens |-> IF t = "1:1" THEN "alice" ELSE "bob"]
    /\ nftApproval = [t \in Tokens |-> IF t = "1:1" THEN Some(1) ELSE None]
    /\ nftNextApproval = [t \in Tokens |-> IF t = "1:1" THEN 2 ELSE 1]
    /\ held = [f \in FtTokenIds |-> 0]
    /\ issued = {}
    /\ last = [op |-> "migrate"]

\* The legacy listing is bought, deleted, changed, re-listed, or its
\* token is given away for bob's offer or for bob's token 2:1; bob lists 2:1.
LegacyNext ==
    \/ \E a \in {"alice", "bob"} : StorageTopUp(a)
    \/ Buy("bob", "1:1", 0)
    \/ \E c \in {"alice", "owner"} : DeleteMarketData(c, "1:1")
    \/ UpdateMarketData("alice", "1:1", SalePrice + 1, None)
    \/ AddOffer("bob", Some("1:1"), None, OfferPrice)
    \/ \E msg \in {SaleMsg(None, SalePrice + 1),
                   AcceptOfferMsg("bob", OfferPrice), AcceptTradeMsg("bob", "2:1")} :
          promises = <<>> /\ NftApprove("alice", "1:1", msg)
    \/ \E msg \in {SaleMsg(None, SalePrice), AddTradeMsg("1:1")} :
          promises = <<>> /\ NftApprove("bob", "2:1", msg)
    \/ NftOnApprove
    \/ NftExecute("exact")
    \/ ResolvePurchase
    \/ ResolveOffer
    \/ CallbackFirstTrade
    \/ CallbackSecondTrade

SpecLegacy == InitMigrated /\ [][LegacyNext]_vars

\* The nft_on_approve step just taken listed its token or gave it away
ApprovalTookToken ==
    /\ last'.op = "nft_on_approve"
    /\ ~last'.aborted
    /\ \/ last'.p.msg.market_type \in {"accept_offer", "accept_trade"}
       \/ /\ last'.p.msg.market_type = "sale"
          /\ market'[contract_and_token_id(NFT, last'.p.token_id)] # None

\* C34: from maps that share no key, no step inserts into the legacy map or
\* changes an entry of it, no state has a key in both maps, and the legacy
\* entry of a token is gone after its purchase, its deletion, its re-listing
\* and the acceptance of an offer or of a trade for it.
C34_LegacyMapShrinks ==
    [][/\ \A k \in Keys2 : old_market'[k] # None => old_market'[k] = old_market[k]
       /\ \A k \in Keys2 : ~(old_market'[k] # None /\ market'[k] # None)
       /\ last'.op \in {"buy", "delete_market_data"}
             => old_market'[contract_and_token_id(NFT, "1:1")] = None
       /\ ApprovalTookToken
             => old_market'[contract_and_token_id(NFT, last'.p.token_id)] = None
       /\ \A c \in Accounts :
             LET k == contract_and_token_id(NFT, "1:1")
                 bought == buy(State, c, NFT, "1:1", None, None, SalePrice, TRUE)
                 deleted == delete_market_data(State, c, NFT, "1:1")
             IN  /\ bought # PANIC => bought.old_market[k] = None
                 /\ deleted # PANIC => deleted.old_market[k] = None
      ]_vars

\* alice has listed token 1:1 again: its legacy entry is gone and the current
\* map holds the new listing.
C34_Witness ==
    /\ last.op = "nft_on_approve"
    /\ last.p.token_id = "1:1"
    /\ last.p.msg.market_type = "sale"
    /\ old_market[contract_and_token_id(NFT, "1:1")] = None
    /\ ListingOf(market) # None
    /\ Val(ListingOf(market)).price = SalePrice + 1

ConstructorFees == {0, 500, 9999, 10000, 20000}

\* Contract::new(owner, treasury, Some([ft]), Some([nft]), Some([nft]), current_fee)
InitNew ==
    /\ owner_id = "owner"
    /\ treasury_id = "treasury"
    /\ \E current_fee \in ConstructorFees :
          transaction_fee = [next_fee |-> None, start_time |-> None,
                             current_fee |-> current_fee]
    /\ old_market = [k \in Keys2 |-> None]
    /\ market = [k \in Keys2 |-> None]
    /\ approved_ft_token_ids = {NEAR, FT}
    /\ approved_nft_contract_ids = {NFT}
    /\ marble_nft_contracts = {NFT}
    /\ storage_deposits = [a \in Accounts |-> 0]
    /\ by_owner_id = [a \in Accounts |-> None]
    /\ offers = [k \in Keys3 |-> None]
    /\ trades = [k \in Keys3 |-> None]
    /\ market_data_transaction_fee = [k \in Keys2 |-> None]
    /\ now = 0
    /\ promises = <<>>
    /\ nftOwner = [t \in Tokens |-> IF t = "1:1" THEN "alice" ELSE "bob"]
    /\ nftApproval = [t \in Tokens |-> None]
    /\ nftNextApproval = [t \in Tokens |-> 1]
    /\ held = [f \in FtTokenIds |-> 0]
    /\ issued = {}
    /\ last = [op |-> "new"]

\* The fee schedule and one sale at a fixed price, settled, after new with any fee
NewNext ==
    \/ Tick
    \/ StorageTopUp("alice")
    \/ \E next_fee \in {NextFee, 9999} : SetTransactionFee("owner", next_fee, None)
    \/ SetTransactionFee("owner", ScheduledFee, Some(1))
    \/ CalculateCurrentTransactionFee("alice")
    \/ nftNextApproval["1:1"] = 1 /\ NftApprove("alice", "1:1", SaleMsg(None, SalePrice))
    \/ Buy("bob", "1:1", 0)
    \/ NftOnApprove
    \/ NftExecute("exact")
    \/ ResolvePurchase

SpecNew == InitNew /\ [][NewNext]_vars

\* The fees of the schedule are below the denominator, and a pending fee has a
\* start time and a start time a pending fee.
FeesInRange ==
    /\ transaction_fee.current_fee < FEE_DENOMINATOR
    /\ transaction_fee.next_fee # None => Val(transaction_fee.next_fee) < FEE_DENOMINATOR
    /\ transaction_fee.next_fee # None <=> transaction_fee.start_time # None

\* The fee resolve_purchase computed is at most the price paid.
SettledFeeWithinPrice ==
    (last.op = "resolve_purchase" /\ last.result.ok)
    => treasury_fee_of(last.p.price, Val(last.fee_bps)) <= last.p.price

\* C36: in every reachable state current_fee and a pending next_fee are below
\* 10000 basis points, next_fee is present exactly when start_time is present,
\* and so the treasury fee computed at settlement never exceeds the sale price.
C36_FeesBelowDenominator == FeesInRange /\ SettledFeeWithinPrice

\* ------------------------------------------------------------ storage covers the index
\* C37: in every reachable state and for every account a,
\* storage_deposits[a] >= |by_owner_id[a]| * STORAGE_ADD_MARKET_DATA; so the
\* subtraction in storage_withdraw never underflows, and a withdrawal leaves the
\* account with the storage of every listing, offer and trade intent it holds.
C37_StorageCoversIndex ==
    \A a \in Accounts :
       LET count == Cardinality(IndexOf(by_owner_id, a))
           r == storage_withdraw(State, a, 1)
       IN  /\ storage_deposits[a] >= count * STORAGE_ADD_MARKET_DATA
           /\ r # PANIC
           /\ r.storage_deposits[a] = count * STORAGE_ADD_MARKET_DATA
           /\ r.by_owner_id = by_owner_id
           /\ (last.op = "storage_withdraw" /\ last.caller = a)
                 => storage_deposits[a] = count * STORAGE_ADD_MARKET_DATA

\* bob, who holds an offer and a trade intent, withdrew and keeps the storage of both.
C37_Witness ==
    /\ last.op = "storage_withdraw"
    /\ last.caller = "bob"
    /\ Cardinality(IndexOf(by_owner_id, "bob")) = 2
    /\ storage_deposits["bob"] = 2 * STORAGE_ADD_MARKET_DATA

\* ------------------------------------------------------------ the times of a Dutch listing
\* C38: every listing with end_price stored by listing creation has started_at
\* and ended_at present with started_at < ended_at, so that the duration the
\* Dutch price of buy, internal_buy and get_market_data divides by is never
\* zero and neither field is unwrapped while absent.
C38_DutchTimesPresent ==
    \A md \in Listings :
       md.end_price # None
       => /\ md.started_at # None
          /\ md.ended_at # None
          /\ Val(md.started_at) < Val(md.ended_at)

\* ------------------------------------------------------------ fixed-price listings with times
\* A fixed-price listing with a start time, an end time, both or neither, with
\* is_auction absent or false; a Dutch listing that starts later; an English
\* auction.  Buyers buy and bid in the listing's payment token.
SaleStart == 1
SaleEnd == 2
TimedSaleMsg(ft_token_id, price, is_auction, started_at, ended_at) ==
    [SaleMsg(ft_token_id, price) EXCEPT !.is_auction = is_auction,
                                        !.started_at = started_at, !.ended_at = ended_at]

TimedMsgs ==
    {TimedSaleMsg(ft, SalePrice, is_auction, started_at, ended_at) :
        ft \in {None, Some(FT)}, is_auction \in {None, Some(FALSE)},
        started_at \in {None, Some(SaleStart)}, ended_at \in {None, Some(SaleEnd)}}
    \cup {[DutchMsg(ft, SalePrice, DutchEndPrice, SaleEnd) EXCEPT !.started_at = Some(SaleStart)] :
             ft \in {None, Some(FT)}}
    \cup {AuctionMsg(None, OpeningBid, SaleEnd, None)}

TimedNext ==
    \/ Tick
    \/ StorageTopUp("alice")
    \/ \E msg \in TimedMsgs : nftNextApproval["1:1"] = 1 /\ NftApprove("alice", "1:1", msg)
    \/ Buy("bob", "1:1", 0)
    \/ FtOnTransfer("bob", SalePrice, TokenInfo("buy", FT, "1:1"))
    \/ \E b \in {"bob", "carol"} : \E amount \in {OpeningBid, NextBid(OpeningBid)} :
          AddBid(b, "1:1", amount, 0)
    \/ \E amount \in {OpeningBid, NextBid(OpeningBid)} :
          FtOnTransfer("carol", amount, TokenInfo("auction", FT, "1:1"))
    \/ NftOnApprove
    \/ NftExecute("exact")
    \/ ResolvePurchase

SpecTimed == Init /\ [][TimedNext]_vars

\* C39: a listing holds bids only if it was created with is_auction = true:
\* add_bid and bids in the fungible token on a listing whose is_auction is
\* absent or false are rejected, so a fixed-price listing that buy can
\* purchase never has escrowed bids.
C39_BidsOnlyOnAuctions ==
    \A md \in Listings :
       md.is_auction # Some(TRUE)
       => /\ md.bids = None \/ Val(md.bids) = <<>>
          /\ \A b \in Users : \A amount \in {OpeningBid, NextBid(OpeningBid)} :
                \A overflow_checks \in BOOLEAN :
                   /\ add_bid(State, b, NFT, NEAR, md.token_id, amount, amount,
                              overflow_checks) = PANIC
                   /\ ft_on_transfer(State, b, amount,
                                     TokenInfo("auction", md.ft_token_id, md.token_id),
                                     overflow_checks) = PANIC

\* C40: for every listing with started_at set, buy and the purchase through the
\* fungible token are rejected while now < started_at, for fixed-price
\* listings as well as for Dutch listings: no settlement is started for a
\* listing before its start time.
C40_NoPurchaseBeforeStart ==
    \A md \in Listings :
       (md.started_at # None /\ now < Val(md.started_at))
       => \A b \in Users : \A overflow_checks \in BOOLEAN :
             /\ buy(State, b, NFT, md.token_id, None, None, md.price, overflow_checks) = PANIC
             /\ ft_on_transfer(State, b, md.price,
                               TokenInfo("buy", md.ft_token_id, md.token_id),
                               overflow_checks) = PANIC
====
